---- MODULE Spec2Model ----
(***************************************************************************)
(* State-machine model of pdf_toolkit.py: the rasterizer                   *)
(* (PDFToImageConverter.convert), the chunk splitter (split_pdf,           *)
(* split_pdf_to_folder), the remote recognition client (ocr_file) and the  *)
(* pipeline orchestrator (ocr_pdf_chunked), the batch driver               *)
(* (scan_and_process_directory) and the command dispatcher (main).         *)
(*                                                                         *)
(* Strings are sequences of one-character strings, a path is a sequence of *)
(* names, the file system is a function from paths to file contents.  The  *)
(* program is single threaded: pc is the position of the one thread, and   *)
(* cv, sp, rc, oc, au, bt, mn hold the local variables of the              *)
(* (non-recursive)                                                         *)
(* functions.  Every call into a library or the remote service either      *)
(* returns or raises; the choice is nondeterministic.                      *)
(***************************************************************************)
EXTENDS Integers, Sequences, FiniteSets, TLC

VARIABLES
    fs,                      \* the file system: path -> [kind, pages, data]
    fs0,                     \* history: the file system before the call
    service,                 \* GoogleDriveOCR.service: "None" or "drive"
    pages_per_chunk,         \* GoogleDriveOCR.pages_per_chunk
    PDF_TO_IMAGE_AVAILABLE,  \* module flag set by the optional imports
    remote,                  \* the remote store: object id -> [name, text, live]
    next_id,                 \* the id the remote service hands out next
    drive_log,               \* history: the remote calls issued, in order
    render_calls,            \* history: number of convert_from_path calls
    pc,                      \* position of the thread
    call,                    \* the top-level call being run
    outcome,                 \* how the top-level call ended
    cv,                      \* locals of PDFToImageConverter.convert; history:
                             \* opened (the output file was opened for writing)
    sp,                      \* locals of split_pdf / split_pdf_to_folder
    rc,                      \* locals of ocr_file
    oc,                      \* locals of ocr_pdf_chunked
    au,                      \* locals of authenticate
    bt,                      \* locals of scan_and_process_directory; history:
                             \* processed (the files whose processing finished)
    mn                       \* locals of main, and the process exit status

vars == <<fs, fs0, service, pages_per_chunk, PDF_TO_IMAGE_AVAILABLE, remote,
          next_id, drive_log, render_calls, pc, call, outcome,
          cv, sp, rc, oc, au, bt, mn>>

(***************************************************************************)
(* Bounds of the model.                                                    *)
(***************************************************************************)
MaxPages == 4
MaxChunkSize == 3
DownloadChunkSize == 2

(***************************************************************************)
(* Strings.                                                                *)
(***************************************************************************)
Min(a, b) == IF a <= b THEN a ELSE b

Digit(d) ==
    CASE d = 0 -> "0" [] d = 1 -> "1" [] d = 2 -> "2" [] d = 3 -> "3"
      [] d = 4 -> "4" [] d = 5 -> "5" [] d = 6 -> "6" [] d = 7 -> "7"
      [] d = 8 -> "8" [] d = 9 -> "9"

RECURSIVE FormatNat(_)
FormatNat(n) ==
    IF n < 10 THEN <<Digit(n)>> ELSE FormatNat(n \div 10) \o <<Digit(n % 10)>>

\* f"{i}" for an int i
FormatInt(n) == IF n < 0 THEN <<"-">> \o FormatNat(-n) ELSE FormatNat(n)

\* "c" * n
Repeat(c, n) == [i \in 1..n |-> c]

LowerChar(c) ==
    CASE c = "A" -> "a" [] c = "B" -> "b" [] c = "C" -> "c" [] c = "D" -> "d"
      [] c = "E" -> "e" [] c = "F" -> "f" [] c = "G" -> "g" [] c = "H" -> "h"
      [] c = "I" -> "i" [] c = "J" -> "j" [] c = "K" -> "k" [] c = "L" -> "l"
      [] c = "M" -> "m" [] c = "N" -> "n" [] c = "O" -> "o" [] c = "P" -> "p"
      [] c = "Q" -> "q" [] c = "R" -> "r" [] c = "S" -> "s" [] c = "T" -> "t"
      [] c = "U" -> "u" [] c = "V" -> "v" [] c = "W" -> "w" [] c = "X" -> "x"
      [] c = "Y" -> "y" [] c = "Z" -> "z" [] OTHER -> c

\* str.lower()
Lower(s) == [i \in 1..Len(s) |-> LowerChar(s[i])]

(***************************************************************************)
(* pathlib.  A name is a string; a path is a sequence of names.            *)
(***************************************************************************)
LastDot(name) ==
    LET dots == {i \in 1..Len(name) : name[i] = "."}
    IN  IF dots = {} THEN 0 ELSE CHOOSE i \in dots : \A j \in dots : j <= i

\* PurePath.suffix: the part from the last dot, unless the dot leads or ends the name
Suffix(name) ==
    LET d == LastDot(name)
    IN  IF 1 < d /\ d < Len(name) THEN SubSeq(name, d, Len(name)) ELSE <<>>

\* PurePath.stem
Stem(name) ==
    LET d == LastDot(name)
    IN  IF 1 < d /\ d < Len(name) THEN SubSeq(name, 1, d - 1) ELSE name

Name(p) == p[Len(p)]
Parent(p) == SubSeq(p, 1, Len(p) - 1)
Join(dir, name) == Append(dir, name)
\* PurePath.with_suffix
WithSuffix(p, suffix) == Join(Parent(p), Stem(Name(p)) \o suffix)

S_pdf == <<".", "p", "d", "f">>
S_txt == <<".", "t", "x", "t">>
S_image_pdf == <<"_", "i", "m", "a", "g", "e">> \o S_pdf
S_processing == <<"_", "p", "r", "o", "c", "e", "s", "s", "i", "n", "g">>
S_chunk == <<"_", "c", "h", "u", "n", "k", "_">>
S_ocr_text_txt == <<"_", "o", "c", "r", "_", "t", "e", "x", "t">> \o S_txt

(***************************************************************************)
(* The file system.                                                        *)
(***************************************************************************)
NoPath == <<>>
Dir == [kind |-> "dir", pages |-> <<>>, data |-> <<>>]
Pdf(pages) == [kind |-> "pdf", pages |-> pages, data |-> <<>>]
Txt(data) == [kind |-> "txt", pages |-> <<>>, data |-> data]
Blob == [kind |-> "blob", pages |-> <<>>, data |-> <<>>]

Exists(f, p) == p \in DOMAIN f
IsDir(f, p) == Exists(f, p) /\ f[p].kind = "dir"
IsFile(f, p) == Exists(f, p) /\ f[p].kind # "dir"

\* open(p, 'w'/'wb') succeeds: the parent is a directory and p is not one
CanCreate(f, p) == IsDir(f, Parent(p)) /\ ~IsDir(f, p)

FsWrite(f, p, c) == [q \in DOMAIN f \cup {p} |-> IF q = p THEN c ELSE f[q]]
\* os.remove
FsRemove(f, p) == [q \in DOMAIN f \ {p} |-> f[q]]

\* a page of a document: its 0-based number in the source, and whether it
\* is a page image made by the rasterizer
Page(n, raster) == [num |-> n, raster |-> raster]
SourceDoc(P) == Pdf([i \in 1..P |-> Page(i - 1, FALSE)])

(***************************************************************************)
(* The inputs of a run.                                                    *)
(***************************************************************************)
Root == << <<"d">> >>
InputPdf == Join(Root, <<"a">> \o S_pdf)
MissingPdf == Join(Root, <<"m">> \o S_pdf)
ScanJpg == Join(Root, <<"s", ".", "J", "P", "G">>)
OutPdf == Join(Root, <<"o">> \o S_pdf)
OutTxt == Join(Root, <<"o">> \o S_txt)

\* the texts the remote service may recognise in an uploaded file
TextSet == { <<>>, <<"a", "\r", "\n">> }

\* the colour modes a rendered page may have
Modes == {"RGB", "RGBA", "L", "P", "CMYK", "1", "LAB"}

\* declared file types handed to ocr_file
FileTypes == { <<"p", "d", "f">>, <<"P", "D", "F">>, <<"J", "p", "g">>,
               <<"d", "o", "c">>, <<"x", "y", "z">>, <<"t", "x", "t">> }

NoCv == [caller |-> "none", status |-> "idle", exc |-> "none",
         input_path |-> NoPath, output_path |-> NoPath, images |-> <<>>,
         i |-> 0, image_bytes_list |-> <<>>,
         last |-> [mode |-> "none", converts |-> 0, saved |-> "none"],
         opened |-> FALSE,
         fs_at_call |-> <<>>]
NoSp == [caller |-> "none", fn |-> "none", status |-> "idle", exc |-> "none",
         input_pdf |-> NoPath, output_folder |-> NoPath, pages |-> <<>>,
         total_pages |-> 0, num_chunks |-> 0, chunk_num |-> 0,
         chunk_files |-> <<>>, fs_at_call |-> <<>>]
NoRc == [caller |-> "none", status |-> "idle", exc |-> "none",
         input_file |-> NoPath, output_file |-> NoPath, file_type |-> <<>>,
         mime_type |-> "None", file_id |-> 0, progress |-> 0, done |-> FALSE,
         log_start |-> 0, fs_at_call |-> <<>>]
NoOc == [caller |-> "none", status |-> "idle", exc |-> "none",
         pdf_path |-> NoPath, output_path |-> NoPath, keep_chunks |-> FALSE,
         delete_original |-> FALSE, auto_convert |-> FALSE,
         processing_folder |-> NoPath, pdf_to_process |-> NoPath,
         chunk_files |-> <<>>, text_files |-> <<>>, k |-> 0, i |-> 0,
         j |-> 0, convert_failed |-> FALSE]
NoAu == [caller |-> "none", status |-> "idle", exc |-> "none"]
NoBt == [caller |-> "none", status |-> "idle", directory |-> NoPath,
         file_types |-> <<>>, auto_convert |-> FALSE, batch_folder |-> NoPath,
         files_by_type |-> <<>>, t |-> 0, n |-> 0, processed |-> <<>>]
NoMn == [status |-> "idle", command |-> "none", input |-> NoPath,
         output |-> NoPath, keep_chunks |-> FALSE, delete_original |-> FALSE,
         no_convert |-> FALSE, types |-> <<>>, GOOGLE_OCR_AVAILABLE |-> TRUE,
         exit_status |-> -1]
NoOutcome == [status |-> "none", exc |-> "none", value |-> <<>>]

Init ==
    /\ \E P \in 0..MaxPages, pre \in BOOLEAN :
         LET base == (Root :> Dir) @@ (InputPdf :> SourceDoc(P)) @@ (ScanJpg :> Blob)
             stale == (OutPdf :> Blob)
                      @@ (Join(Root, Stem(Name(InputPdf)) \o S_processing) :> Dir)
                      @@ (Join(Join(Root, Stem(Name(InputPdf)) \o S_processing),
                               Stem(Name(InputPdf)) \o S_ocr_text_txt)
                            :> Txt(<<"o">>))
         IN  fs = IF pre THEN base @@ stale ELSE base
    /\ fs0 = fs
    /\ service = "None"
    /\ pages_per_chunk \in 1..MaxChunkSize
    /\ PDF_TO_IMAGE_AVAILABLE \in BOOLEAN
    /\ remote = <<>>
    /\ next_id = 1
    /\ drive_log = <<>>
    /\ render_calls = 0
    /\ pc = "idle"
    /\ call = [op |-> "none"]
    /\ outcome = NoOutcome
    /\ cv = NoCv
    /\ sp = NoSp
    /\ rc = NoRc
    /\ oc = NoOc
    /\ au = NoAu
    /\ bt = NoBt
    /\ mn = NoMn

Returned(v) == [status |-> "returned", exc |-> "none", value |-> v]
Raised(e) == [status |-> "raised", exc |-> e, value |-> <<>>]

UNCH_drive == UNCHANGED <<remote, next_id, drive_log>>
UNCH_config ==
    UNCHANGED <<fs0, pages_per_chunk, PDF_TO_IMAGE_AVAILABLE, call, bt, mn>>

(***************************************************************************)
(* PDFToImageConverter.convert                                             *)
(***************************************************************************)
AcceptedModes == {"RGB", "RGBA", "L", "P", "CMYK"}

\* the frame of a call convert(input_pdf, output_pdf)
CvFrame(caller, input_pdf, output_pdf) ==
    [NoCv EXCEPT !.caller = caller, !.status = "running",
                 !.input_path = input_pdf, !.output_path = output_pdf,
                 !.fs_at_call = fs]

\* top level: converter.convert(input, output)
CallConvert ==
    /\ pc = "idle"
    /\ PDF_TO_IMAGE_AVAILABLE
    /\ \E input \in {InputPdf, MissingPdf},
          output \in {NoPath, OutPdf, InputPdf, Root} :
         /\ call' = [op |-> "convert", input |-> input, output |-> output]
         /\ cv' = CvFrame("top", input, output)
    /\ pc' = "cv_start"
    /\ UNCHANGED <<fs, fs0, service, pages_per_chunk, PDF_TO_IMAGE_AVAILABLE,
                   render_calls, outcome, sp, rc, oc, au, bt, mn>>
    /\ UNCH_drive

\* lines 94-102: the existence check and the default output path
DefaultOutput(input_path) ==
    Join(Parent(input_path), Stem(Name(input_path)) \o S_image_pdf)

\* the frame of a call that has ended: its locals are gone
CvEnded(status, exc) ==
    [NoCv EXCEPT !.caller = cv.caller, !.status = status, !.exc = exc,
                 !.input_path = cv.input_path, !.output_path = cv.output_path,
                 !.opened = cv.opened, !.fs_at_call = cv.fs_at_call]

\* Faulty variant: the existence check made inside the try block
cv_start_inside_try ==
    /\ pc = "cv_start"
    /\ cv' = [cv EXCEPT !.output_path =
                 IF cv.output_path = NoPath
                 THEN DefaultOutput(cv.input_path) ELSE cv.output_path,
                        !.exc = IF Exists(fs, cv.input_path)
                                THEN "none" ELSE "FileNotFoundError"]
    /\ pc' = IF Exists(fs, cv.input_path) THEN "cv_render" ELSE "cv_except"
    /\ UNCHANGED <<fs, service, render_calls, outcome, sp, rc, oc, au>>
    /\ UNCH_drive /\ UNCH_config

cv_start ==
    /\ pc = "cv_start"
    /\ IF ~Exists(fs, cv.input_path)
       THEN /\ cv' = CvEnded("raised", "FileNotFoundError")
            /\ IF cv.caller = "top"
               THEN pc' = "done" /\ outcome' = Raised("FileNotFoundError")
               ELSE pc' = "oc_convert_except" /\ UNCHANGED outcome
       ELSE /\ cv' = [cv EXCEPT !.output_path =
                         IF cv.output_path = NoPath
                         THEN DefaultOutput(cv.input_path) ELSE cv.output_path]
            /\ pc' = "cv_render"
            /\ UNCHANGED outcome
    /\ UNCHANGED <<fs, service, render_calls, sp, rc, oc, au>>
    /\ UNCH_drive /\ UNCH_config

\* line 110: images = convert_from_path(...)
cv_render ==
    /\ pc = "cv_render"
    /\ render_calls' = render_calls + 1
    /\ \/ /\ fs[cv.input_path].kind = "pdf"
          /\ cv' = [cv EXCEPT !.images = fs[cv.input_path].pages, !.i = 1]
          /\ pc' = "cv_page"
       \/ /\ cv' = [cv EXCEPT !.exc = "RenderError"]
          /\ pc' = "cv_except"
    /\ UNCHANGED <<fs, service, outcome, sp, rc, oc, au>>
    /\ UNCH_drive /\ UNCH_config

\* Faulty variant: CMYK pages are coerced too
NeedsCoercion_cmyk(mode) == mode \notin (AcceptedModes \ {"CMYK"})

\* line 119: the page needs img.convert('RGB')
NeedsCoercion(mode) == mode \notin AcceptedModes

\* lines 119-124 for a page rendered in `mode`: the number of img.convert('RGB')
\* calls made, and the mode of the image handed to img.save
PageEncoding(mode) ==
    [mode |-> mode,
     converts |-> IF NeedsCoercion(mode) THEN 1 ELSE 0,
     saved |-> IF NeedsCoercion(mode) THEN "RGB" ELSE mode]

\* lines 115-125: one iteration over a rendered page whose mode is `mode`
cv_page ==
    /\ pc = "cv_page"
    /\ cv.i <= Len(cv.images)
    /\ \E mode \in Modes :
         LET page == Page(cv.images[cv.i].num, TRUE)
         IN  \/ /\ cv' = [cv EXCEPT !.image_bytes_list = Append(@, page),
                                    !.i = @ + 1,
                                    !.last = PageEncoding(mode)]
                /\ pc' = "cv_page"
             \/ \* img.save raises
                /\ cv' = [cv EXCEPT !.exc = "EncodeError",
                                    !.last = PageEncoding(mode)]
                /\ pc' = "cv_except"
    /\ UNCHANGED <<fs, service, render_calls, outcome, sp, rc, oc, au>>
    /\ UNCH_drive /\ UNCH_config

\* lines 130-131: with open(output_path, "wb") as f: f.write(img2pdf.convert(...))
cv_write ==
    /\ pc = "cv_page"
    /\ cv.i > Len(cv.images)
    /\ \/ /\ ~CanCreate(fs, cv.output_path)
          /\ cv' = [cv EXCEPT !.exc = "OSError", !.last = NoCv.last]
          /\ pc' = "cv_except"
          /\ UNCHANGED fs
       \/ \* the file is open (created or truncated) and img2pdf.convert or
          \* f.write raises
          /\ CanCreate(fs, cv.output_path)
          /\ fs' = FsWrite(fs, cv.output_path, Blob)
          /\ cv' = [cv EXCEPT !.exc = "WriteError", !.last = NoCv.last,
                              !.opened = TRUE]
          /\ pc' = "cv_except"
       \/ /\ CanCreate(fs, cv.output_path)
          /\ fs' = FsWrite(fs, cv.output_path, Pdf(cv.image_bytes_list))
          /\ cv' = [cv EXCEPT !.last = NoCv.last, !.opened = TRUE]
          /\ pc' = "cv_stat"
    /\ UNCHANGED <<service, render_calls, outcome, sp, rc, oc, au>>
    /\ UNCH_drive /\ UNCH_config

\* lines 134-142: the file sizes, then return output_path
cv_stat ==
    /\ pc = "cv_stat"
    /\ \/ /\ Exists(fs, cv.input_path) /\ Exists(fs, cv.output_path)
          /\ cv' = CvEnded("returned", "none")
          /\ IF cv.caller = "top"
             THEN pc' = "done" /\ outcome' = Returned(cv.output_path)
             ELSE pc' = "oc_converted" /\ UNCHANGED outcome
       \/ /\ cv' = [cv EXCEPT !.exc = "StatError"]
          /\ pc' = "cv_except"
          /\ UNCHANGED outcome
    /\ UNCHANGED <<fs, service, render_calls, sp, rc, oc, au>>
    /\ UNCH_drive /\ UNCH_config

\* Faulty variant: the except block leaves the output where it is
CleanUpPartialOutput_none(f, output_path) == f

\* lines 146-148: the clean-up of the except block
CleanUpPartialOutput(f, output_path) ==
    IF Exists(f, output_path) THEN FsRemove(f, output_path) ELSE f

\* lines 144-149; os.remove of a directory raises, and that error is the one
\* that leaves convert
cv_except ==
    /\ pc = "cv_except"
    /\ LET e == IF IsDir(fs, cv.output_path)
                THEN "IsADirectoryError" ELSE "ConversionFailed"
       IN  /\ fs' = IF IsDir(fs, cv.output_path)
                    THEN fs ELSE CleanUpPartialOutput(fs, cv.output_path)
           /\ cv' = CvEnded("raised", e)
           /\ IF cv.caller = "top"
              THEN pc' = "done" /\ outcome' = Raised(e)
              ELSE pc' = "oc_convert_except" /\ UNCHANGED outcome
    /\ UNCHANGED <<service, render_calls, sp, rc, oc, au>>
    /\ UNCH_drive /\ UNCH_config

(***************************************************************************)
(* GoogleDriveOCR.ocr_pdf_chunked: how an exception leaves it.  Nothing in *)
(* ocr_pdf_chunked catches what split_pdf_to_folder, ocr_file, open or     *)
(* os.remove raise, so the exception ends the call.                        *)
(***************************************************************************)
OcRaise(e) ==
    /\ oc' = [oc EXCEPT !.status = "raised", !.exc = e]
    /\ pc' = "done"
    /\ outcome' = Raised(e)

(***************************************************************************)
(* GoogleDriveOCR.split_pdf and split_pdf_to_folder                        *)
(***************************************************************************)
\* Python's a // b for b # 0
FloorDiv(a, b) == IF b > 0 THEN a \div b ELSE (-a) \div (-b)

\* Faulty variant: the chunk count rounded down
NumChunks_floor(total_pages, chunk_size) == FloorDiv(total_pages, chunk_size)

\* lines 231, 398
NumChunks(total_pages, chunk_size) ==
    FloorDiv(total_pages + chunk_size - 1, chunk_size)

\* Faulty variant: the first page taken as 1-based
StartPage_one_based(chunk_num, chunk_size) == chunk_num * chunk_size + 1

\* lines 234, 401
StartPage(chunk_num, chunk_size) == chunk_num * chunk_size

\* lines 235, 402
EndPage(chunk_num, chunk_size, total_pages) ==
    Min(StartPage(chunk_num, chunk_size) + chunk_size, total_pages)

\* lines 237-239, 404-406: the pages added to the writer, reader.pages being 0-based
ChunkPages(pages, start_page, end_page) ==
    [j \in 1..(end_page - start_page) |-> pages[start_page + j]]

\* Faulty variant: the chunk files numbered from 0
ChunkName_zero_based(input_pdf, chunk_num) ==
    Stem(Name(input_pdf)) \o S_chunk \o FormatInt(chunk_num) \o S_pdf

\* lines 241, 408: f"{input_pdf.stem}_chunk_{chunk_num + 1}.pdf"
ChunkName(input_pdf, chunk_num) ==
    Stem(Name(input_pdf)) \o S_chunk \o FormatInt(chunk_num + 1) \o S_pdf

SpFrame(caller, fn, input_pdf, output_folder) ==
    [NoSp EXCEPT !.caller = caller, !.fn = fn, !.status = "running",
                 !.input_pdf = input_pdf, !.output_folder = output_folder,
                 !.fs_at_call = fs]

\* top level: ocr.split_pdf(input_pdf); the chunks go next to the input (line 241)
CallSplitPdf ==
    /\ pc = "idle"
    /\ call' = [op |-> "split_pdf", input |-> InputPdf]
    /\ sp' = SpFrame("top", "split_pdf", InputPdf, Parent(InputPdf))
    /\ pc' = "sp_start"
    /\ UNCHANGED <<fs, fs0, service, pages_per_chunk, PDF_TO_IMAGE_AVAILABLE,
                   render_calls, outcome, cv, rc, oc, au, bt, mn>>
    /\ UNCH_drive

\* top level: ocr.split_pdf_to_folder(input_pdf, output_folder)
CallSplitPdfToFolder ==
    /\ pc = "idle"
    /\ \E folder \in {Root, Join(Root, Stem(Name(InputPdf)) \o S_processing)} :
         /\ call' = [op |-> "split_pdf_to_folder", input |-> InputPdf,
                     folder |-> folder]
         /\ sp' = SpFrame("top", "split_pdf_to_folder", InputPdf, folder)
    /\ pc' = "sp_start"
    /\ UNCHANGED <<fs, fs0, service, pages_per_chunk, PDF_TO_IMAGE_AVAILABLE,
                   render_calls, outcome, cv, rc, oc, au, bt, mn>>
    /\ UNCH_drive

\* an exception leaves the splitter
SpRaise(e) ==
    /\ sp' = [sp EXCEPT !.status = "raised", !.exc = e]
    /\ IF sp.caller = "top"
       THEN pc' = "done" /\ outcome' = Raised(e) /\ UNCHANGED oc
       ELSE OcRaise(e)

\* lines 226-231, 393-398: open the reader, count the pages and the chunks
sp_start ==
    /\ pc = "sp_start"
    /\ \/ /\ Exists(fs, sp.input_pdf) /\ fs[sp.input_pdf].kind = "pdf"
          /\ IF pages_per_chunk = 0
             THEN SpRaise("ZeroDivisionError")
             ELSE /\ sp' = [sp EXCEPT
                       !.pages = fs[sp.input_pdf].pages,
                       !.total_pages = Len(fs[sp.input_pdf].pages),
                       !.num_chunks = NumChunks(Len(fs[sp.input_pdf].pages),
                                                pages_per_chunk),
                       !.chunk_num = 0]
                  /\ pc' = "sp_loop"
                  /\ UNCHANGED <<outcome, oc>>
       \/ \* PdfReader raises: no such file, or not a readable PDF
          SpRaise("PdfReadError")
    /\ UNCHANGED <<fs, service, render_calls, cv, rc, au>>
    /\ UNCH_drive /\ UNCH_config

\* lines 233-247, 400-414: one iteration of the loop over range(num_chunks)
sp_chunk ==
    /\ pc = "sp_loop"
    /\ sp.chunk_num < sp.num_chunks
    /\ LET start_page == StartPage(sp.chunk_num, pages_per_chunk)
           end_page == EndPage(sp.chunk_num, pages_per_chunk, sp.total_pages)
           chunk_path == Join(sp.output_folder, ChunkName(sp.input_pdf, sp.chunk_num))
       IN  \/ /\ ~CanCreate(fs, chunk_path)
              /\ SpRaise("OSError")
              /\ UNCHANGED fs
           \/ \* the file is open and writer.write raises
              /\ CanCreate(fs, chunk_path)
              /\ fs' = FsWrite(fs, chunk_path, Blob)
              /\ SpRaise("WriteError")
           \/ /\ CanCreate(fs, chunk_path)
              /\ fs' = FsWrite(fs, chunk_path,
                               Pdf(ChunkPages(sp.pages, start_page, end_page)))
              /\ sp' = [sp EXCEPT !.chunk_files = Append(@, chunk_path),
                                  !.chunk_num = @ + 1]
              /\ pc' = "sp_loop"
              /\ UNCHANGED <<outcome, oc>>
    /\ UNCHANGED <<service, render_calls, cv, rc, au>>
    /\ UNCH_drive /\ UNCH_config

\* lines 249, 416: return chunk_files
sp_return ==
    /\ pc = "sp_loop"
    /\ sp.chunk_num >= sp.num_chunks
    /\ sp' = [sp EXCEPT !.status = "returned"]
    /\ IF sp.caller = "top"
       THEN pc' = "done" /\ outcome' = Returned(sp.chunk_files)
       ELSE pc' = "oc_split_done" /\ UNCHANGED outcome
    /\ UNCHANGED <<fs, service, render_calls, cv, rc, oc, au>>
    /\ UNCH_drive /\ UNCH_config

(***************************************************************************)
(* GoogleDriveOCR.authenticate.  The credentials file, the token store and *)
(* the OAuth flow are outside the modelled file system: whether they are   *)
(* there and work is the environment's choice.                             *)
(***************************************************************************)
\* top level: ocr.authenticate(), after which another call may follow
CallAuthenticate ==
    /\ pc = "idle"
    /\ service = "None"
    /\ au' = [NoAu EXCEPT !.caller = "top", !.status = "running"]
    /\ pc' = "au_start"
    /\ UNCHANGED <<fs, service, render_calls, outcome, cv, sp, rc, oc>>
    /\ UNCH_drive /\ UNCH_config

\* lines 177-212
authenticate ==
    /\ pc = "au_start"
    /\ \/ /\ service' = "drive"
          /\ au' = [NoAu EXCEPT !.status = "returned"]
          /\ pc' = CASE au.caller = "top" -> "idle"
                     [] au.caller = "oc" -> "oc_mkdir"
                     [] au.caller = "bt" -> "bt_mkdir"
                     [] au.caller = "main" -> "mn_ocr_input"
          /\ UNCHANGED <<outcome, oc>>
       \/ \E e \in {"FileNotFoundError", "AuthError"} :
            /\ au' = [au EXCEPT !.status = "raised", !.exc = e]
            /\ IF au.caller = "oc"
               THEN OcRaise(e)
               ELSE pc' = "done" /\ outcome' = Raised(e) /\ UNCHANGED oc
            /\ UNCHANGED service
    /\ UNCHANGED <<fs, render_calls, cv, sp, rc>>
    /\ UNCH_drive /\ UNCH_config

(***************************************************************************)
(* GoogleDriveOCR.ocr_file                                                 *)
(***************************************************************************)
\* lines 45-53
MIME_TYPES ==
    (<<"p", "d", "f">> :> "application/pdf")
    @@ (<<"j", "p", "g">> :> "image/jpeg")
    @@ (<<"j", "p", "e", "g">> :> "image/jpeg")
    @@ (<<"p", "n", "g">> :> "image/png")
    @@ (<<"g", "i", "f">> :> "image/gif")
    @@ (<<"b", "m", "p">> :> "image/bmp")
    @@ (<<"d", "o", "c">> :> "application/msword")

\* Faulty variant: an unknown type falls back to a generic MIME type
MimeType_permissive(file_type) ==
    IF Lower(file_type) \in DOMAIN MIME_TYPES
    THEN MIME_TYPES[Lower(file_type)] ELSE "application/octet-stream"

\* line 263: MIME_TYPES.get(file_type.lower())
MimeType(file_type) ==
    IF Lower(file_type) \in DOMAIN MIME_TYPES
    THEN MIME_TYPES[Lower(file_type)] ELSE "None"

\* one remote call, as the service sees it
DriveCall(op, id, name, mime, ok) ==
    [op |-> op, id |-> id, name |-> name, mime |-> mime, ok |-> ok]

RcFrame(caller, input_file, output_file, file_type) ==
    [NoRc EXCEPT !.caller = caller, !.status = "running",
                 !.input_file = input_file, !.output_file = output_file,
                 !.file_type = file_type, !.log_start = Len(drive_log),
                 !.fs_at_call = fs]

\* top level: ocr.ocr_file(input_file, output_file, file_type)
CallOcrFile ==
    /\ pc = "idle"
    /\ \E input \in {InputPdf, ScanJpg}, file_type \in FileTypes :
         /\ call' = [op |-> "ocr_file", input |-> input, output |-> OutTxt,
                     file_type |-> file_type]
         /\ rc' = RcFrame("top", input, OutTxt, file_type)
    /\ pc' = "rc_start"
    /\ UNCHANGED <<fs, fs0, service, pages_per_chunk, PDF_TO_IMAGE_AVAILABLE,
                   render_calls, outcome, cv, sp, oc, au, bt, mn>>
    /\ UNCH_drive

\* an exception leaves ocr_file
RcRaise(e) ==
    /\ rc' = [rc EXCEPT !.status = "raised", !.exc = e]
    /\ IF rc.caller = "oc"
       THEN OcRaise(e)
       ELSE pc' = "done" /\ outcome' = Raised(e) /\ UNCHANGED oc

\* Faulty variant: the type checked before the session
Precheck_type_first(svc, file_type) ==
    IF MimeType(file_type) = "None" THEN "ValueError"
    ELSE IF svc = "None" THEN "RuntimeError"
    ELSE "ok"

\* lines 260-265: the two checks made before anything is sent
Precheck(svc, file_type) ==
    IF svc = "None" THEN "RuntimeError"
    ELSE IF MimeType(file_type) = "None" THEN "ValueError"
    ELSE "ok"

rc_start ==
    /\ pc = "rc_start"
    /\ IF Precheck(service, rc.file_type) # "ok"
       THEN RcRaise(Precheck(service, rc.file_type))
       ELSE /\ rc' = [rc EXCEPT !.mime_type = MimeType(rc.file_type)]
            /\ pc' = "rc_upload"
            /\ UNCHANGED <<outcome, oc>>
    /\ UNCHANGED <<fs, service, render_calls, cv, sp, au>>
    /\ UNCH_drive /\ UNCH_config

\* lines 273-281: MediaFileUpload and files().create(...).execute()
rc_upload ==
    /\ pc = "rc_upload"
    /\ \/ /\ ~IsFile(fs, rc.input_file)
          /\ RcRaise("FileNotFoundError")
          /\ UNCH_drive
       \/ /\ IsFile(fs, rc.input_file)
          /\ drive_log' = Append(drive_log,
                 DriveCall("create", 0, Name(rc.input_file), rc.mime_type, FALSE))
          /\ RcRaise("HttpError")
          /\ UNCHANGED <<remote, next_id>>
       \/ /\ IsFile(fs, rc.input_file)
          /\ \E text \in TextSet :
               remote' = (next_id :> [name |-> Name(rc.input_file), text |-> text,
                                      live |-> TRUE]) @@ remote
          /\ drive_log' = Append(drive_log,
                 DriveCall("create", next_id, Name(rc.input_file), rc.mime_type, TRUE))
          /\ next_id' = next_id + 1
          /\ rc' = [rc EXCEPT !.file_id = next_id]
          /\ pc' = "rc_export"
          /\ UNCHANGED <<outcome, oc>>
    /\ UNCHANGED <<fs, service, render_calls, cv, sp, au>>
    /\ UNCH_config

\* lines 284-287: the export request, and io.FileIO(output_file, "wb")
rc_export ==
    /\ pc = "rc_export"
    /\ IF ~CanCreate(fs, rc.output_file)
       THEN RcRaise("OSError") /\ UNCHANGED fs
       ELSE /\ fs' = FsWrite(fs, rc.output_file, Txt(<<>>))
            /\ rc' = [rc EXCEPT !.progress = 0, !.done = FALSE]
            /\ pc' = "rc_download"
            /\ UNCHANGED <<outcome, oc>>
    /\ UNCHANGED <<service, render_calls, cv, sp, au>>
    /\ UNCH_drive /\ UNCH_config

\* MediaIoBaseDownload.next_chunk: the next piece of the exported bytes
NextPiece(text, progress) ==
    SubSeq(text, progress + 1, Min(progress + DownloadChunkSize, Len(text)))

\* Faulty variant: the loop asks the downloader for one more step after the
\* step that reported done
rc_next_chunk_once_more ==
    /\ pc = "rc_download"
    /\ \/ ~rc.done
       \/ /\ rc.file_id \in DOMAIN remote
          /\ rc.progress = Len(remote[rc.file_id].text)
    /\ \/ /\ rc.file_id \in DOMAIN remote /\ remote[rc.file_id].live
          /\ LET text == remote[rc.file_id].text
                 piece == NextPiece(text, rc.progress)
                 done == rc.progress + Len(piece) = Len(text)
             IN  /\ drive_log' = Append(drive_log,
                        DriveCall("export", rc.file_id, <<>>, "text/plain", TRUE))
                 /\ fs' = FsWrite(fs, rc.output_file,
                                  Txt(fs[rc.output_file].data \o piece))
                 /\ rc' = [rc EXCEPT
                           !.progress = IF rc.done THEN Len(text) + 1
                                                   ELSE @ + Len(piece),
                           !.done = rc.done \/ done]
                 /\ pc' = "rc_download"
                 /\ UNCHANGED <<outcome, oc>>
       \/ /\ drive_log' = Append(drive_log,
                 DriveCall("export", rc.file_id, <<>>, "text/plain", FALSE))
          /\ RcRaise("HttpError")
          /\ UNCHANGED fs
    /\ UNCHANGED <<remote, next_id, service, render_calls, cv, sp, au>>
    /\ UNCH_config

\* Faulty variant: a failed export step deletes the uploaded object on its way out
rc_next_chunk_cleaning ==
    /\ pc = "rc_download"
    /\ ~rc.done
    /\ \/ /\ rc.file_id \in DOMAIN remote /\ remote[rc.file_id].live
          /\ LET text == remote[rc.file_id].text
                 piece == NextPiece(text, rc.progress)
                 done == rc.progress + Len(piece) = Len(text)
             IN  /\ drive_log' = Append(drive_log,
                        DriveCall("export", rc.file_id, <<>>, "text/plain", TRUE))
                 /\ fs' = FsWrite(fs, rc.output_file,
                                  Txt(fs[rc.output_file].data \o piece))
                 /\ rc' = [rc EXCEPT !.progress = @ + Len(piece), !.done = done]
                 /\ pc' = "rc_download"
                 /\ UNCHANGED <<outcome, oc, remote>>
       \/ /\ drive_log' = Append(drive_log,
                 DriveCall("export", rc.file_id, <<>>, "text/plain", FALSE))
          /\ remote' = [remote EXCEPT ![rc.file_id].live = FALSE]
          /\ RcRaise("HttpError")
          /\ UNCHANGED fs
    /\ UNCHANGED <<next_id, service, render_calls, cv, sp, au>>
    /\ UNCH_config

\* lines 288-289: one turn of `while not done`
rc_next_chunk ==
    /\ pc = "rc_download"
    /\ ~rc.done
    /\ \/ /\ rc.file_id \in DOMAIN remote /\ remote[rc.file_id].live
          /\ LET text == remote[rc.file_id].text
                 piece == NextPiece(text, rc.progress)
                 done == rc.progress + Len(piece) = Len(text)
             IN  /\ drive_log' = Append(drive_log,
                        DriveCall("export", rc.file_id, <<>>, "text/plain", TRUE))
                 /\ fs' = FsWrite(fs, rc.output_file,
                                  Txt(fs[rc.output_file].data \o piece))
                 /\ rc' = [rc EXCEPT !.progress = @ + Len(piece), !.done = done]
                 /\ pc' = "rc_download"
                 /\ UNCHANGED <<outcome, oc>>
       \/ /\ drive_log' = Append(drive_log,
                 DriveCall("export", rc.file_id, <<>>, "text/plain", FALSE))
          /\ RcRaise("HttpError")
          /\ UNCHANGED fs
    /\ UNCHANGED <<remote, next_id, service, render_calls, cv, sp, au>>
    /\ UNCH_config

\* Faulty variant: ocr_file returns without deleting the uploaded object
rc_delete_skipped ==
    /\ pc = "rc_download"
    /\ rc.done
    /\ rc' = [rc EXCEPT !.status = "returned"]
    /\ IF rc.caller = "top"
       THEN pc' = "done" /\ outcome' = Returned(<<>>)
       ELSE pc' = "oc_ocr_done" /\ UNCHANGED outcome
    /\ UNCHANGED <<fs, oc, service, render_calls, cv, sp, au>>
    /\ UNCH_drive /\ UNCH_config

\* Faulty variant: a failed delete is tried a second time
rc_delete_retrying ==
    /\ pc = "rc_download"
    /\ rc.done
    /\ \/ /\ drive_log' = Append(drive_log,
                 DriveCall("delete", rc.file_id, <<>>, "None", TRUE))
          /\ remote' = [remote EXCEPT ![rc.file_id].live = FALSE]
          /\ rc' = [rc EXCEPT !.status = "returned"]
          /\ IF rc.caller = "top"
             THEN pc' = "done" /\ outcome' = Returned(<<>>)
             ELSE pc' = "oc_ocr_done" /\ UNCHANGED outcome
          /\ UNCHANGED oc
       \/ /\ drive_log' = Append(drive_log,
                 DriveCall("delete", rc.file_id, <<>>, "None", FALSE))
          /\ IF drive_log[Len(drive_log)].op = "delete"
             THEN RcRaise("HttpError")
             ELSE UNCHANGED <<rc, pc, outcome, oc>>
          /\ UNCHANGED remote
    /\ UNCHANGED <<fs, next_id, service, render_calls, cv, sp, au>>
    /\ UNCH_config

\* lines 292-293: files().delete(fileId=file_id).execute(), then return
rc_delete ==
    /\ pc = "rc_download"
    /\ rc.done
    /\ \/ /\ drive_log' = Append(drive_log,
                 DriveCall("delete", rc.file_id, <<>>, "None", TRUE))
          /\ remote' = [remote EXCEPT ![rc.file_id].live = FALSE]
          /\ rc' = [rc EXCEPT !.status = "returned"]
          /\ IF rc.caller = "top"
             THEN pc' = "done" /\ outcome' = Returned(<<>>)
             ELSE /\ pc' = IF rc.caller = "bt" THEN "bt_file_done"
                                              ELSE "oc_ocr_done"
                  /\ UNCHANGED outcome
          /\ UNCHANGED oc
       \/ /\ drive_log' = Append(drive_log,
                 DriveCall("delete", rc.file_id, <<>>, "None", FALSE))
          /\ RcRaise("HttpError")
          /\ UNCHANGED remote
    /\ UNCHANGED <<fs, next_id, service, render_calls, cv, sp, au>>
    /\ UNCH_config

(***************************************************************************)
(* GoogleDriveOCR.ocr_pdf_chunked                                          *)
(***************************************************************************)
SeparatorWidth == 50

\* Faulty variant: the separator numbered from 0
Separator_zero_based(i) ==
    <<"\n", "\n">> \o Repeat("=", SeparatorWidth)
    \o <<" ", "C", "h", "u", "n", "k", " ">> \o FormatInt(i - 1)
    \o <<" ", "E", "n", "d", " ">>
    \o Repeat("=", SeparatorWidth) \o <<"\n", "\n">>

\* line 359: "\n\n" + "="*50 + f" Chunk {i} End " + "="*50 + "\n\n"
Separator(i) ==
    <<"\n", "\n">> \o Repeat("=", SeparatorWidth)
    \o <<" ", "C", "h", "u", "n", "k", " ">> \o FormatInt(i)
    \o <<" ", "E", "n", "d", " ">>
    \o Repeat("=", SeparatorWidth) \o <<"\n", "\n">>

\* line 355-356: open(text_file, 'r').read() translates "\r\n" and "\r" to "\n"
\* (every "\r" becomes "\n", and a "\n" that directly follows a "\r" is dropped)
ReadText(data) ==
    LET Kept(i) == ~(data[i] = "\n" /\ i > 1 /\ data[i - 1] = "\r")
        at == SelectSeq([i \in 1..Len(data) |-> i], Kept)
    IN  [k \in 1..Len(at) |-> IF data[at[k]] = "\r" THEN "\n" ELSE data[at[k]]]

\* os.linesep of the platform the tool runs on
linesep == <<"\n">>

\* line 353, 357: write to a file opened with 'w' translates "\n" to os.linesep
RECURSIVE WriteText(_)
WriteText(text) ==
    IF text = <<>> THEN <<>>
    ELSE IF Len(text) = 1 THEN (IF text[1] = "\n" THEN linesep ELSE text)
    ELSE LET h == Len(text) \div 2
         IN  WriteText(SubSeq(text, 1, h)) \o WriteText(SubSeq(text, h + 1, Len(text)))

\* Faulty variant: a separator after every chunk, the last included
Piece_trailing(content, i, n) == content \o Separator(i)

\* lines 356-359: what one iteration writes for the i-th of n text files
Piece(content, i, n) == IF i < n THEN content \o Separator(i) ELSE content

\* line 318
ProcessingFolder(pdf_path) ==
    Join(Parent(pdf_path), Stem(Name(pdf_path)) \o S_processing)

\* line 324
DefaultTextOutput(pdf_path) ==
    Join(ProcessingFolder(pdf_path), Stem(Name(pdf_path)) \o S_ocr_text_txt)

\* line 331
ImagePdfPath(pdf_path) ==
    Join(ProcessingFolder(pdf_path), Stem(Name(pdf_path)) \o S_image_pdf)

\* line 346
ChunkOutput(chunk_file) == WithSuffix(chunk_file, S_txt)

\* top level: ocr.ocr_pdf_chunked(pdf_path, output_path, keep_chunks, ...)
CallOcrPdfChunked ==
    /\ pc = "idle"
    /\ \E pdf_path \in {InputPdf, MissingPdf}, output_path \in {NoPath, OutTxt},
          keep_chunks \in BOOLEAN, delete_original \in BOOLEAN,
          auto_convert \in BOOLEAN :
         /\ call' = [op |-> "ocr_pdf_chunked", input |-> pdf_path,
                     output |-> output_path, keep_chunks |-> keep_chunks,
                     delete_original |-> delete_original,
                     auto_convert |-> auto_convert]
         /\ oc' = [NoOc EXCEPT !.caller = "top", !.status = "running",
                               !.pdf_path = pdf_path, !.output_path = output_path,
                               !.keep_chunks = keep_chunks,
                               !.delete_original = delete_original,
                               !.auto_convert = auto_convert]
    /\ pc' = "oc_start"
    /\ UNCHANGED <<fs, fs0, service, pages_per_chunk, PDF_TO_IMAGE_AVAILABLE,
                   render_calls, outcome, cv, sp, rc, au, bt, mn>>
    /\ UNCH_drive

\* lines 314-315
oc_start ==
    /\ pc = "oc_start"
    /\ IF service = "None"
       THEN /\ au' = [NoAu EXCEPT !.caller = "oc", !.status = "running"]
            /\ pc' = "au_start"
       ELSE /\ pc' = "oc_mkdir"
            /\ UNCHANGED au
    /\ UNCHANGED <<fs, service, render_calls, outcome, cv, sp, rc, oc>>
    /\ UNCH_drive /\ UNCH_config

\* Faulty variant: mkdir without exist_ok raises when the folder is there
oc_mkdir_exclusive ==
    /\ pc = "oc_mkdir"
    /\ LET folder == ProcessingFolder(oc.pdf_path)
       IN  IF IsDir(fs, Parent(folder)) /\ ~Exists(fs, folder)
           THEN /\ fs' = FsWrite(fs, folder, Dir)
                /\ oc' = [oc EXCEPT
                       !.processing_folder = folder,
                       !.output_path = IF oc.output_path = NoPath
                                       THEN DefaultTextOutput(oc.pdf_path)
                                       ELSE oc.output_path,
                       !.pdf_to_process = oc.pdf_path]
                /\ pc' = "oc_auto_convert"
                /\ UNCHANGED outcome
           ELSE OcRaise("FileExistsError") /\ UNCHANGED fs
    /\ UNCHANGED <<service, render_calls, cv, sp, rc, au>>
    /\ UNCH_drive /\ UNCH_config

\* lines 318-324: processing_folder.mkdir(exist_ok=True) and the default output
oc_mkdir ==
    /\ pc = "oc_mkdir"
    /\ LET folder == ProcessingFolder(oc.pdf_path)
       IN  IF IsDir(fs, folder) \/ (IsDir(fs, Parent(folder)) /\ ~Exists(fs, folder))
           THEN /\ fs' = IF IsDir(fs, folder) THEN fs ELSE FsWrite(fs, folder, Dir)
                /\ oc' = [oc EXCEPT
                       !.processing_folder = folder,
                       !.output_path = IF oc.output_path = NoPath
                                       THEN DefaultTextOutput(oc.pdf_path)
                                       ELSE oc.output_path,
                       !.pdf_to_process = oc.pdf_path]
                /\ pc' = "oc_auto_convert"
                /\ UNCHANGED outcome
           ELSE OcRaise("OSError") /\ UNCHANGED fs
    /\ UNCHANGED <<service, render_calls, cv, sp, rc, au>>
    /\ UNCH_drive /\ UNCH_config

\* line 328: the rasterizer is used
UsesRasterizer(auto_convert, available) == auto_convert /\ available

\* lines 327-333: pdf_to_process = converter.convert(pdf_path, image_pdf_path)
oc_auto_convert ==
    /\ pc = "oc_auto_convert"
    /\ IF UsesRasterizer(oc.auto_convert, PDF_TO_IMAGE_AVAILABLE)
       THEN /\ cv' = CvFrame("oc", oc.pdf_path, ImagePdfPath(oc.pdf_path))
            /\ pc' = "cv_start"
       ELSE /\ pc' = "oc_split"
            /\ UNCHANGED cv
    /\ UNCHANGED <<fs, service, render_calls, outcome, sp, rc, oc, au>>
    /\ UNCH_drive /\ UNCH_config

\* Faulty variant: the image PDF is made and the original is split all the same
oc_converted_original ==
    /\ pc = "oc_converted"
    /\ oc' = [oc EXCEPT !.pdf_to_process = oc.pdf_path]
    /\ pc' = "oc_split"
    /\ UNCHANGED <<fs, service, render_calls, outcome, cv, sp, rc, au>>
    /\ UNCH_drive /\ UNCH_config

\* lines 333-334: convert returned
oc_converted ==
    /\ pc = "oc_converted"
    /\ oc' = [oc EXCEPT !.pdf_to_process = cv.output_path]
    /\ pc' = "oc_split"
    /\ UNCHANGED <<fs, service, render_calls, outcome, cv, sp, rc, au>>
    /\ UNCH_drive /\ UNCH_config

\* Faulty variant: the conversion failure ends the run
oc_convert_except_abort ==
    /\ pc = "oc_convert_except"
    /\ OcRaise(cv.exc)
    /\ UNCHANGED <<fs, service, render_calls, cv, sp, rc, au>>
    /\ UNCH_drive /\ UNCH_config

\* lines 335-338: convert raised
oc_convert_except ==
    /\ pc = "oc_convert_except"
    /\ oc' = [oc EXCEPT !.pdf_to_process = oc.pdf_path, !.convert_failed = TRUE]
    /\ pc' = "oc_split"
    /\ UNCHANGED <<fs, service, render_calls, outcome, cv, sp, rc, au>>
    /\ UNCH_drive /\ UNCH_config

\* line 341: chunk_files = self.split_pdf_to_folder(pdf_to_process, processing_folder)
oc_split ==
    /\ pc = "oc_split"
    /\ sp' = SpFrame("oc", "split_pdf_to_folder", oc.pdf_to_process,
                     oc.processing_folder)
    /\ pc' = "sp_start"
    /\ UNCHANGED <<fs, service, render_calls, outcome, cv, rc, oc, au>>
    /\ UNCH_drive /\ UNCH_config

\* Faulty variant: the original is removed as soon as its chunks are written
oc_split_done_removing ==
    /\ pc = "oc_split_done"
    /\ oc' = [oc EXCEPT !.chunk_files = sp.chunk_files, !.text_files = <<>>,
                        !.k = 1, !.delete_original = FALSE]
    /\ fs' = IF oc.delete_original /\ IsFile(fs, oc.pdf_path)
             THEN FsRemove(fs, oc.pdf_path) ELSE fs
    /\ pc' = "oc_ocr_loop"
    /\ UNCHANGED <<service, render_calls, outcome, cv, sp, rc, au>>
    /\ UNCH_drive /\ UNCH_config

\* Faulty variant: the final output is opened before the chunks are recognised
oc_split_done_opening ==
    /\ pc = "oc_split_done"
    /\ oc' = [oc EXCEPT !.chunk_files = sp.chunk_files, !.text_files = <<>>,
                        !.k = 1]
    /\ fs' = IF CanCreate(fs, oc.output_path)
             THEN FsWrite(fs, oc.output_path, Txt(<<>>)) ELSE fs
    /\ pc' = "oc_ocr_loop"
    /\ UNCHANGED <<service, render_calls, outcome, cv, sp, rc, au>>
    /\ UNCH_drive /\ UNCH_config

\* lines 341-344: split_pdf_to_folder returned
oc_split_done ==
    /\ pc = "oc_split_done"
    /\ oc' = [oc EXCEPT !.chunk_files = sp.chunk_files, !.text_files = <<>>,
                        !.k = 1]
    /\ pc' = "oc_ocr_loop"
    /\ UNCHANGED <<fs, service, render_calls, outcome, cv, sp, rc, au>>
    /\ UNCH_drive /\ UNCH_config

\* Faulty variant: the chunks taken last first
ChunkAt_reversed(chunk_files, k) == chunk_files[Len(chunk_files) + 1 - k]

\* the order in which the loop of line 345 takes the chunks
ChunkAt(chunk_files, k) == chunk_files[k]

\* lines 345-348: self.ocr_file(chunk_file, chunk_output, 'pdf')
oc_ocr_call ==
    /\ pc = "oc_ocr_loop"
    /\ oc.k <= Len(oc.chunk_files)
    /\ LET chunk_file == ChunkAt(oc.chunk_files, oc.k)
       IN  rc' = RcFrame("oc", chunk_file, ChunkOutput(chunk_file), <<"p", "d", "f">>)
    /\ pc' = "rc_start"
    /\ UNCHANGED <<fs, service, render_calls, outcome, cv, sp, oc, au>>
    /\ UNCH_drive /\ UNCH_config

\* line 349: text_files.append(chunk_output)
oc_ocr_done ==
    /\ pc = "oc_ocr_done"
    /\ oc' = [oc EXCEPT !.text_files = Append(@, rc.output_file), !.k = @ + 1]
    /\ pc' = "oc_ocr_loop"
    /\ UNCHANGED <<fs, service, render_calls, outcome, cv, sp, rc, au>>
    /\ UNCH_drive /\ UNCH_config

\* line 353: with open(output_path, 'w', encoding='utf-8') as outfile
oc_combine_open ==
    /\ pc = "oc_ocr_loop"
    /\ oc.k > Len(oc.chunk_files)
    /\ IF CanCreate(fs, oc.output_path)
       THEN /\ fs' = FsWrite(fs, oc.output_path, Txt(<<>>))
            /\ oc' = [oc EXCEPT !.i = 1]
            /\ pc' = "oc_combine"
            /\ UNCHANGED outcome
       ELSE OcRaise("OSError") /\ UNCHANGED fs
    /\ UNCHANGED <<service, render_calls, cv, sp, rc, au>>
    /\ UNCH_drive /\ UNCH_config

\* Faulty variant: the loop leaves the text files for a later clean-up
oc_combine_step_keeping ==
    /\ pc = "oc_combine"
    /\ oc.i <= Len(oc.text_files)
    /\ LET text_file == oc.text_files[oc.i]
       IN  \/ /\ ~IsFile(fs, text_file)
              /\ OcRaise("FileNotFoundError")
              /\ UNCHANGED fs
           \/ /\ IsFile(fs, text_file)
              /\ OcRaise("IOError")
              /\ UNCHANGED fs
           \/ /\ IsFile(fs, text_file)
              /\ LET content == ReadText(fs[text_file].data)
                     piece == Piece(content, oc.i, Len(oc.text_files))
                 IN  fs' = FsWrite(fs, oc.output_path,
                                   Txt(fs[oc.output_path].data \o WriteText(piece)))
              /\ oc' = [oc EXCEPT !.i = @ + 1]
              /\ pc' = "oc_combine"
              /\ UNCHANGED outcome
    /\ UNCHANGED <<service, render_calls, cv, sp, rc, au>>
    /\ UNCH_drive /\ UNCH_config

\* lines 354-363: one iteration of the loop over enumerate(text_files, 1)
oc_combine_step ==
    /\ pc = "oc_combine"
    /\ oc.i <= Len(oc.text_files)
    /\ LET text_file == oc.text_files[oc.i]
       IN  \/ /\ ~IsFile(fs, text_file)
              /\ OcRaise("FileNotFoundError")
              /\ UNCHANGED fs
           \/ \* infile.read() or outfile.write() raises
              /\ IsFile(fs, text_file)
              /\ OcRaise("IOError")
              /\ UNCHANGED fs
           \/ /\ IsFile(fs, text_file)
              /\ LET content == ReadText(fs[text_file].data)
                     piece == Piece(content, oc.i, Len(oc.text_files))
                     written == FsWrite(fs, oc.output_path,
                                    Txt(fs[oc.output_path].data \o WriteText(piece)))
                 IN  fs' = IF ~oc.keep_chunks
                           THEN FsRemove(written, text_file) ELSE written
              /\ oc' = [oc EXCEPT !.i = @ + 1]
              /\ pc' = "oc_combine"
              /\ UNCHANGED outcome
    /\ UNCHANGED <<service, render_calls, cv, sp, rc, au>>
    /\ UNCH_drive /\ UNCH_config

\* line 353/366: the with block ends, the output file is closed
oc_combine_close ==
    /\ pc = "oc_combine"
    /\ oc.i > Len(oc.text_files)
    /\ oc' = [oc EXCEPT !.j = 1]
    /\ pc' = "oc_cleanup"
    /\ UNCHANGED <<fs, service, render_calls, outcome, cv, sp, rc, au>>
    /\ UNCH_drive /\ UNCH_config

\* Faulty variant: the loop walks over the chunk PDFs and removes none
oc_remove_chunk_none ==
    /\ pc = "oc_cleanup"
    /\ ~oc.keep_chunks
    /\ oc.j <= Len(oc.chunk_files)
    /\ oc' = [oc EXCEPT !.j = @ + 1]
    /\ UNCHANGED <<fs, pc, outcome, service, render_calls, cv, sp, rc, au>>
    /\ UNCH_drive /\ UNCH_config

\* lines 366-369: one iteration of the loop that removes the chunk PDFs
oc_remove_chunk ==
    /\ pc = "oc_cleanup"
    /\ ~oc.keep_chunks
    /\ oc.j <= Len(oc.chunk_files)
    /\ LET chunk_file == oc.chunk_files[oc.j]
       IN  IF IsFile(fs, chunk_file)
           THEN /\ fs' = FsRemove(fs, chunk_file)
                /\ oc' = [oc EXCEPT !.j = @ + 1]
                /\ pc' = "oc_cleanup"
                /\ UNCHANGED outcome
           ELSE OcRaise("FileNotFoundError") /\ UNCHANGED fs
    /\ UNCHANGED <<service, render_calls, cv, sp, rc, au>>
    /\ UNCH_drive /\ UNCH_config

\* lines 372-378: the original is removed if asked for, and output_path returned
oc_finish ==
    /\ pc = "oc_cleanup"
    /\ oc.keep_chunks \/ oc.j > Len(oc.chunk_files)
    /\ IF oc.delete_original /\ ~IsFile(fs, oc.pdf_path)
       THEN OcRaise("FileNotFoundError") /\ UNCHANGED fs
       ELSE /\ fs' = IF oc.delete_original THEN FsRemove(fs, oc.pdf_path) ELSE fs
            /\ oc' = [oc EXCEPT !.status = "returned"]
            /\ IF oc.caller = "bt"
               THEN pc' = "bt_pdf_done" /\ UNCHANGED outcome
               ELSE pc' = "done" /\ outcome' = Returned(oc.output_path)
    /\ UNCHANGED <<service, render_calls, cv, sp, rc, au>>
    /\ UNCH_drive /\ UNCH_config

(***************************************************************************)
(* GoogleDriveOCR.scan_and_process_directory.  Nothing in it catches what  *)
(* mkdir, shutil.copy2, ocr_pdf_chunked or ocr_file raise, so an exception *)
(* ends the call; bt.status stays "running" then, and pc and outcome tell. *)
(***************************************************************************)
S_batch_processing ==
    <<"b", "a", "t", "c", "h", "_", "p", "r", "o", "c", "e", "s", "s", "i",
      "n", "g", "_">>
S_files == <<"_", "f", "i", "l", "e", "s">>
T_pdf == <<"p", "d", "f">>

\* line 441: time.strftime("%Y%m%d_%H%M%S") at the time of the run
TimeStamp ==
    <<"2", "0", "2", "4", "0", "1", "0", "2", "_", "0", "3", "0", "4", "0", "5">>

\* line 442
BatchFolder(directory, timestamp) ==
    Join(directory, S_batch_processing \o timestamp)

\* line 437: list(MIME_TYPES.keys()), in the order of lines 46-52
DefaultFileTypes ==
    << <<"p", "d", "f">>, <<"j", "p", "g">>, <<"j", "p", "e", "g">>,
       <<"p", "n", "g">>, <<"g", "i", "f">>, <<"b", "m", "p">>,
       <<"d", "o", "c">> >>

\* the file-type lists a batch run is given; <<>> stands for None
BatchTypes == { <<>>, << <<"p", "d", "f">> >>, << <<"j", "p", "g">> >> }

\* str.lstrip('.')
RECURSIVE LStripDots(_)
LStripDots(s) ==
    IF s # <<>> /\ s[1] = "." THEN LStripDots(Tail(s)) ELSE s

\* Faulty variant: the extension compared as it is spelled
Ext_case_sensitive(name) == LStripDots(Suffix(name))

\* line 451: file_path.suffix.lstrip('.').lower()
Ext(name) == Lower(LStripDots(Suffix(name)))

\* Path.mkdir(exist_ok=True) succeeds
MkdirOk(f, p) == IsDir(f, p) \/ (IsDir(f, Parent(p)) /\ ~Exists(f, p))
Mkdir(f, p) == IF IsDir(f, p) THEN f ELSE FsWrite(f, p, Dir)

\* lines 449-450: the entries of the directory that are files
FilesIn(f, directory) ==
    {p \in DOMAIN f : Len(p) = Len(directory) + 1 /\ Parent(p) = directory
                      /\ IsFile(f, p)}

\* the orders in which iterdir may yield a set of entries
Orderings(S) ==
    {s \in [1..Cardinality(S) -> S] : \A i, j \in 1..Cardinality(S) :
                                         i # j => s[i] # s[j]}

\* lines 447-453: files_by_type for the entries taken in the order `entries`
FilesByType(file_types, entries) ==
    [ft \in {file_types[i] : i \in 1..Len(file_types)} |->
        SelectSeq(entries, LAMBDA p : Ext(Name(p)) = ft)]

\* line 462, 487: files_by_type.get(ft) is a non-empty list
HasFiles(files_by_type, ft) ==
    ft \in DOMAIN files_by_type /\ files_by_type[ft] # <<>>

\* line 486: [ft for ft in file_types if ft != "pdf"]
OtherTypes(file_types) == SelectSeq(file_types, LAMBDA ft : ft # T_pdf)

\* line 470, 474, 478: the folder, the copy and the output of one PDF
PdfFolder(batch_folder, pdf_path) == Join(batch_folder, Stem(Name(pdf_path)))
\* Faulty variant: the type folder named by the bare type
TypeFolder_bare(batch_folder, file_type) == Join(batch_folder, file_type)

\* line 491
TypeFolder(batch_folder, file_type) == Join(batch_folder, file_type \o S_files)
\* line 496
FileFolder(batch_folder, file_type, input_path) ==
    Join(TypeFolder(batch_folder, file_type), Stem(Name(input_path)))
\* lines 474, 504
OcrTextIn(folder, input_path) ==
    Join(folder, Stem(Name(input_path)) \o S_ocr_text_txt)

BtFrame(caller, directory, file_types, auto_convert) ==
    [NoBt EXCEPT !.caller = caller, !.status = "running",
                 !.directory = directory, !.file_types = file_types,
                 !.auto_convert = auto_convert]

\* top level: ocr.scan_and_process_directory(directory, file_types, auto_convert)
CallScanAndProcessDirectory ==
    /\ pc = "idle"
    /\ \E file_types \in BatchTypes, auto_convert \in BOOLEAN :
         /\ call' = [op |-> "scan_and_process_directory", input |-> Root,
                     file_types |-> file_types, auto_convert |-> auto_convert]
         /\ bt' = BtFrame("top", Root, file_types, auto_convert)
    /\ pc' = "bt_start"
    /\ UNCHANGED <<fs, fs0, service, pages_per_chunk, PDF_TO_IMAGE_AVAILABLE,
                   render_calls, outcome, cv, sp, rc, oc, au, mn>>
    /\ UNCH_drive

\* an exception leaves scan_and_process_directory
BtRaise(e) ==
    /\ pc' = "done"
    /\ outcome' = Raised(e)

UNCH_batch == UNCHANGED <<fs0, pages_per_chunk, PDF_TO_IMAGE_AVAILABLE, call, mn>>

\* lines 433-434
bt_start ==
    /\ pc = "bt_start"
    /\ IF service = "None"
       THEN /\ au' = [NoAu EXCEPT !.caller = "bt", !.status = "running"]
            /\ pc' = "au_start"
       ELSE /\ pc' = "bt_mkdir"
            /\ UNCHANGED au
    /\ UNCHANGED <<fs, service, render_calls, outcome, cv, sp, rc, oc, bt>>
    /\ UNCH_drive /\ UNCH_batch

\* lines 436-443: the default types and the batch folder
bt_mkdir ==
    /\ pc = "bt_mkdir"
    /\ LET batch_folder == BatchFolder(bt.directory, TimeStamp)
       IN  IF MkdirOk(fs, batch_folder)
           THEN /\ fs' = Mkdir(fs, batch_folder)
                /\ bt' = [bt EXCEPT !.file_types = IF bt.file_types = <<>>
                                                   THEN DefaultFileTypes
                                                   ELSE bt.file_types,
                                    !.batch_folder = batch_folder]
                /\ pc' = "bt_scan"
                /\ UNCHANGED outcome
           ELSE BtRaise("OSError") /\ UNCHANGED <<fs, bt>>
    /\ UNCHANGED <<service, render_calls, cv, sp, rc, oc, au>>
    /\ UNCH_drive /\ UNCH_batch

\* lines 447-453: the directory is read, in the order the system yields it
bt_scan ==
    /\ pc = "bt_scan"
    /\ \E entries \in Orderings(FilesIn(fs, bt.directory)) :
         bt' = [bt EXCEPT !.files_by_type = FilesByType(bt.file_types, entries),
                          !.n = 1]
    /\ pc' = "bt_pdf_loop"
    /\ UNCHANGED <<fs, service, render_calls, outcome, cv, sp, rc, oc, au>>
    /\ UNCH_drive /\ UNCH_batch

\* lines 466-483: the folder and the copy of one PDF, and the call of
\* ocr_pdf_chunked(original_copy, output_path, keep_chunks=False, ...)
bt_pdf ==
    /\ pc = "bt_pdf_loop"
    /\ HasFiles(bt.files_by_type, T_pdf)
    /\ bt.n <= Len(bt.files_by_type[T_pdf])
    /\ LET pdf_path == bt.files_by_type[T_pdf][bt.n]
           pdf_folder == PdfFolder(bt.batch_folder, pdf_path)
           output_path == OcrTextIn(pdf_folder, pdf_path)
           original_copy == Join(pdf_folder, Name(pdf_path))
       IN  /\ MkdirOk(fs, pdf_folder)
           /\ \/ \* shutil.copy2 raises
                 /\ fs' = Mkdir(fs, pdf_folder)
                 /\ BtRaise("OSError")
                 /\ UNCHANGED oc
              \/ /\ fs' = FsWrite(Mkdir(fs, pdf_folder), original_copy, fs[pdf_path])
                 /\ oc' = [NoOc EXCEPT !.caller = "bt", !.status = "running",
                                       !.pdf_path = original_copy,
                                       !.output_path = output_path,
                                       !.keep_chunks = FALSE,
                                       !.delete_original = FALSE,
                                       !.auto_convert = bt.auto_convert]
                 /\ pc' = "oc_start"
                 /\ UNCHANGED outcome
    /\ UNCHANGED <<service, render_calls, cv, sp, rc, au, bt>>
    /\ UNCH_drive /\ UNCH_batch

\* line 466: ocr_pdf_chunked returned, the loop goes to the next PDF
bt_pdf_done ==
    /\ pc = "bt_pdf_done"
    /\ bt' = [bt EXCEPT !.processed = Append(@, bt.files_by_type[T_pdf][bt.n]),
                        !.n = @ + 1]
    /\ pc' = "bt_pdf_loop"
    /\ UNCHANGED <<fs, service, render_calls, outcome, cv, sp, rc, oc, au>>
    /\ UNCH_drive /\ UNCH_batch

\* lines 462, 466, 486: no PDF is left
bt_pdfs_end ==
    /\ pc = "bt_pdf_loop"
    /\ ~(HasFiles(bt.files_by_type, T_pdf) /\ bt.n <= Len(bt.files_by_type[T_pdf]))
    /\ bt' = [bt EXCEPT !.t = 1, !.n = 1]
    /\ pc' = "bt_type_loop"
    /\ UNCHANGED <<fs, service, render_calls, outcome, cv, sp, rc, oc, au>>
    /\ UNCH_drive /\ UNCH_batch

\* lines 486-492: the next type other than "pdf", and its folder
bt_type ==
    /\ pc = "bt_type_loop"
    /\ bt.t <= Len(OtherTypes(bt.file_types))
    /\ LET file_type == OtherTypes(bt.file_types)[bt.t]
           type_folder == TypeFolder(bt.batch_folder, file_type)
       IN  IF HasFiles(bt.files_by_type, file_type)
           THEN /\ MkdirOk(fs, type_folder)
                /\ fs' = Mkdir(fs, type_folder)
                /\ bt' = [bt EXCEPT !.n = 1]
                /\ pc' = "bt_file_loop"
           ELSE /\ bt' = [bt EXCEPT !.t = @ + 1]
                /\ pc' = "bt_type_loop"
                /\ UNCHANGED fs
    /\ UNCHANGED <<service, render_calls, outcome, cv, sp, rc, oc, au>>
    /\ UNCH_drive /\ UNCH_batch

\* lines 494-506: the folder and the copy of one file, and the call of
\* ocr_file(original_copy, output_path, file_type)
bt_file ==
    /\ pc = "bt_file_loop"
    /\ LET file_type == OtherTypes(bt.file_types)[bt.t]
           files == bt.files_by_type[file_type]
       IN  /\ bt.n <= Len(files)
           /\ LET input_path == files[bt.n]
                  file_folder == FileFolder(bt.batch_folder, file_type, input_path)
                  original_copy == Join(file_folder, Name(input_path))
                  output_path == OcrTextIn(file_folder, input_path)
              IN  /\ MkdirOk(fs, file_folder)
                  /\ \/ \* shutil.copy2 raises
                        /\ fs' = Mkdir(fs, file_folder)
                        /\ BtRaise("OSError")
                        /\ UNCHANGED rc
                     \/ /\ fs' = FsWrite(Mkdir(fs, file_folder), original_copy,
                                         fs[input_path])
                        /\ rc' = [NoRc EXCEPT
                               !.caller = "bt", !.status = "running",
                               !.input_file = original_copy,
                               !.output_file = output_path,
                               !.file_type = file_type,
                               !.log_start = Len(drive_log),
                               !.fs_at_call = fs']
                        /\ pc' = "rc_start"
                        /\ UNCHANGED outcome
    /\ UNCHANGED <<service, render_calls, cv, sp, oc, au, bt>>
    /\ UNCH_drive /\ UNCH_batch

\* line 494: ocr_file returned, the loop goes to the next file of the type
bt_file_done ==
    /\ pc = "bt_file_done"
    /\ LET file_type == OtherTypes(bt.file_types)[bt.t]
       IN  bt' = [bt EXCEPT
                 !.processed = Append(@, bt.files_by_type[file_type][bt.n]),
                 !.n = @ + 1]
    /\ pc' = "bt_file_loop"
    /\ UNCHANGED <<fs, service, render_calls, outcome, cv, sp, rc, oc, au>>
    /\ UNCH_drive /\ UNCH_batch

\* lines 486, 494: no file of the type is left
bt_files_end ==
    /\ pc = "bt_file_loop"
    /\ bt.n > Len(bt.files_by_type[OtherTypes(bt.file_types)[bt.t]])
    /\ bt' = [bt EXCEPT !.t = @ + 1]
    /\ pc' = "bt_type_loop"
    /\ UNCHANGED <<fs, service, render_calls, outcome, cv, sp, rc, oc, au>>
    /\ UNCH_drive /\ UNCH_batch

\* lines 508-511: the end of scan_and_process_directory
bt_return ==
    /\ pc = "bt_type_loop"
    /\ bt.t > Len(OtherTypes(bt.file_types))
    /\ bt' = [bt EXCEPT !.status = "returned"]
    /\ pc' = "done"
    /\ outcome' = Returned(<<>>)
    /\ UNCHANGED <<fs, service, render_calls, cv, sp, rc, oc, au>>
    /\ UNCH_drive /\ UNCH_batch

(***************************************************************************)
(* main: the command dispatcher.  It is the caller of the top-level calls: *)
(* when one of them ends (pc = "done"), main ends the process.             *)
(***************************************************************************)
NoteTxt == Join(Root, <<"n">> \o S_txt)

\* the command lines main is run with: the subcommand and its arguments
MainArgs ==
    {[NoMn EXCEPT !.command = "none"]}
    \cup {[NoMn EXCEPT !.command = "convert", !.input = i, !.output = o] :
             i \in {InputPdf, MissingPdf}, o \in {NoPath, OutPdf}}
    \cup {[NoMn EXCEPT !.command = "ocr", !.input = i, !.output = o,
                       !.keep_chunks = k, !.delete_original = d,
                       !.no_convert = n] :
             i \in {InputPdf, MissingPdf, ScanJpg, NoteTxt},
             o \in {NoPath}, k \in BOOLEAN, d \in BOOLEAN, n \in BOOLEAN}
    \cup {[NoMn EXCEPT !.command = "ocr-batch", !.input = i, !.types = t,
                       !.no_convert = n] :
             i \in {Root, InputPdf}, t \in BatchTypes, n \in BOOLEAN}

\* the state in which the program is started
InitMain ==
    /\ \E P \in 0..MaxPages :
         fs = (Root :> Dir) @@ (InputPdf :> SourceDoc(P)) @@ (ScanJpg :> Blob)
              @@ (NoteTxt :> Blob)
    /\ fs0 = fs
    /\ service = "None"
    /\ pages_per_chunk \in 1..MaxChunkSize
    /\ PDF_TO_IMAGE_AVAILABLE \in BOOLEAN
    /\ remote = <<>>
    /\ next_id = 1
    /\ drive_log = <<>>
    /\ render_calls = 0
    /\ pc = "idle"
    /\ call = [op |-> "none"]
    /\ outcome = NoOutcome
    /\ cv = NoCv
    /\ sp = NoSp
    /\ rc = NoRc
    /\ oc = NoOc
    /\ au = NoAu
    /\ bt = NoBt
    /\ mn = NoMn

UNCH_main == UNCHANGED <<fs0, pages_per_chunk, PDF_TO_IMAGE_AVAILABLE>>

\* lines 596-597: the arguments are parsed; GOOGLE_OCR_AVAILABLE is the module
\* flag set by the optional imports of lines 27-37
mn_start ==
    /\ pc = "idle"
    /\ mn.status = "idle"
    /\ \E args \in MainArgs, google \in BOOLEAN :
         mn' = [args EXCEPT !.status = "running", !.GOOGLE_OCR_AVAILABLE = google]
    /\ pc' = "mn_dispatch"
    /\ UNCHANGED <<fs, service, render_calls, call, outcome, cv, sp, rc, oc, au, bt>>
    /\ UNCH_drive /\ UNCH_main

\* lines 599-601: no subcommand
mn_no_command ==
    /\ pc = "mn_dispatch"
    /\ mn.command = "none"
    /\ mn' = [mn EXCEPT !.status = "exited", !.exit_status = 1]
    /\ pc' = "exited"
    /\ UNCHANGED <<fs, service, render_calls, call, outcome, cv, sp, rc, oc, au, bt>>
    /\ UNCH_drive /\ UNCH_main

\* lines 604-609: PDFToImageConverter(...) (lines 67-75), then convert
mn_convert ==
    /\ pc = "mn_dispatch"
    /\ mn.command = "convert"
    /\ call' = [op |-> "convert", input |-> mn.input, output |-> mn.output]
    /\ IF ~PDF_TO_IMAGE_AVAILABLE
       THEN /\ pc' = "done"
            /\ outcome' = Raised("ImportError")
            /\ UNCHANGED cv
       ELSE /\ cv' = CvFrame("top", mn.input, mn.output)
            /\ pc' = "cv_start"
            /\ UNCHANGED outcome
    /\ UNCHANGED <<fs, service, render_calls, sp, rc, oc, au, bt, mn>>
    /\ UNCH_drive /\ UNCH_main

\* lines 611-618: GoogleDriveOCR(...) (lines 166-170), then authenticate()
mn_ocr ==
    /\ pc = "mn_dispatch"
    /\ mn.command = "ocr"
    /\ IF ~mn.GOOGLE_OCR_AVAILABLE
       THEN /\ pc' = "done"
            /\ outcome' = Raised("ImportError")
            /\ UNCHANGED au
       ELSE /\ au' = [NoAu EXCEPT !.caller = "main", !.status = "running"]
            /\ pc' = "au_start"
            /\ UNCHANGED outcome
    /\ UNCHANGED <<fs, service, render_calls, call, cv, sp, rc, oc, bt, mn>>
    /\ UNCH_drive /\ UNCH_main

\* lines 620-640: the input is looked up and handed to ocr_pdf_chunked or
\* to ocr_file, by its extension
mn_ocr_input ==
    /\ pc = "mn_ocr_input"
    /\ LET file_ext == Ext(Name(mn.input))
           output_path == IF mn.output = NoPath
                          THEN OcrTextIn(Parent(mn.input), mn.input)
                          ELSE mn.output
       IN  IF ~Exists(fs, mn.input)
           THEN /\ pc' = "done"
                /\ outcome' = Raised("FileNotFoundError")
                /\ UNCHANGED <<call, oc, rc>>
           ELSE IF file_ext = T_pdf
           THEN /\ call' = [op |-> "ocr_pdf_chunked", input |-> mn.input,
                            output |-> mn.output, keep_chunks |-> mn.keep_chunks,
                            delete_original |-> mn.delete_original,
                            auto_convert |-> ~mn.no_convert]
                /\ oc' = [NoOc EXCEPT !.caller = "top", !.status = "running",
                                      !.pdf_path = mn.input,
                                      !.output_path = mn.output,
                                      !.keep_chunks = mn.keep_chunks,
                                      !.delete_original = mn.delete_original,
                                      !.auto_convert = ~mn.no_convert]
                /\ pc' = "oc_start"
                /\ UNCHANGED <<outcome, rc>>
           ELSE /\ call' = [op |-> "ocr_file", input |-> mn.input,
                            output |-> output_path, file_type |-> file_ext]
                /\ rc' = RcFrame("top", mn.input, output_path, file_ext)
                /\ pc' = "rc_start"
                /\ UNCHANGED <<outcome, oc>>
    /\ UNCHANGED <<fs, service, render_calls, cv, sp, au, bt, mn>>
    /\ UNCH_drive /\ UNCH_main

\* lines 642-659: GoogleDriveOCR(...), the directory check, then
\* scan_and_process_directory
mn_batch ==
    /\ pc = "mn_dispatch"
    /\ mn.command = "ocr-batch"
    /\ call' = [op |-> "scan_and_process_directory", input |-> mn.input,
                file_types |-> mn.types, auto_convert |-> ~mn.no_convert]
    /\ IF ~mn.GOOGLE_OCR_AVAILABLE \/ ~IsDir(fs, mn.input)
       THEN /\ pc' = "done"
            /\ outcome' = Raised(IF ~mn.GOOGLE_OCR_AVAILABLE
                                 THEN "ImportError" ELSE "NotADirectoryError")
            /\ UNCHANGED bt
       ELSE /\ bt' = BtFrame("top", mn.input, mn.types, ~mn.no_convert)
            /\ pc' = "bt_start"
            /\ UNCHANGED outcome
    /\ UNCHANGED <<fs, service, render_calls, cv, sp, rc, oc, au, mn>>
    /\ UNCH_drive /\ UNCH_main

\* Faulty variant: the error is reported and the process ends normally
mn_finish_normally ==
    /\ pc = "done"
    /\ mn.status = "running"
    /\ mn' = [mn EXCEPT !.status = "exited", !.exit_status = 0]
    /\ pc' = "exited"
    /\ UNCHANGED <<fs, service, render_calls, call, outcome, cv, sp, rc, oc, au, bt>>
    /\ UNCH_drive /\ UNCH_main

\* lines 661-671: the subcommand returned, and main ends normally (exit status
\* 0), or it raised, and an except clause calls sys.exit(1)
mn_finish ==
    /\ pc = "done"
    /\ mn.status = "running"
    /\ mn' = [mn EXCEPT !.status = "exited",
                        !.exit_status = IF outcome.status = "raised" THEN 1 ELSE 0]
    /\ pc' = "exited"
    /\ UNCHANGED <<fs, service, render_calls, call, outcome, cv, sp, rc, oc, au, bt>>
    /\ UNCH_drive /\ UNCH_main

Next ==
    \/ CallConvert \/ cv_start \/ cv_render \/ cv_page \/ cv_write \/ cv_stat
    \/ cv_except
    \/ CallSplitPdf \/ CallSplitPdfToFolder \/ sp_start \/ sp_chunk \/ sp_return
    \/ CallAuthenticate \/ authenticate
    \/ CallOcrFile \/ rc_start \/ rc_upload \/ rc_export \/ rc_next_chunk
    \/ rc_delete
    \/ CallOcrPdfChunked \/ oc_start \/ oc_mkdir \/ oc_auto_convert
    \/ oc_converted \/ oc_convert_except \/ oc_split \/ oc_split_done
    \/ oc_ocr_call \/ oc_ocr_done \/ oc_combine_open \/ oc_combine_step
    \/ oc_combine_close \/ oc_remove_chunk \/ oc_finish

Spec == Init /\ [][Next]_vars

\* the batch driver called on the directory of the inputs
NextBatch ==
    \/ CallScanAndProcessDirectory \/ bt_start \/ bt_mkdir \/ bt_scan
    \/ bt_pdf \/ bt_pdf_done \/ bt_pdfs_end \/ bt_type \/ bt_file
    \/ bt_file_done \/ bt_files_end \/ bt_return
    \/ authenticate
    \/ cv_start \/ cv_render \/ cv_page \/ cv_write \/ cv_stat \/ cv_except
    \/ sp_start \/ sp_chunk \/ sp_return
    \/ rc_start \/ rc_upload \/ rc_export \/ rc_next_chunk \/ rc_delete
    \/ oc_start \/ oc_mkdir \/ oc_auto_convert
    \/ oc_converted \/ oc_convert_except \/ oc_split \/ oc_split_done
    \/ oc_ocr_call \/ oc_ocr_done \/ oc_combine_open \/ oc_combine_step
    \/ oc_combine_close \/ oc_remove_chunk \/ oc_finish

SpecBatch == Init /\ [][NextBatch]_vars

\* the program run from its command line
NextMain ==
    \/ mn_start \/ mn_no_command \/ mn_convert \/ mn_ocr \/ mn_ocr_input
    \/ mn_batch \/ mn_finish
    \/ bt_start \/ bt_mkdir \/ bt_scan
    \/ bt_pdf \/ bt_pdf_done \/ bt_pdfs_end \/ bt_type \/ bt_file
    \/ bt_file_done \/ bt_files_end \/ bt_return
    \/ authenticate
    \/ cv_start \/ cv_render \/ cv_page \/ cv_write \/ cv_stat \/ cv_except
    \/ sp_start \/ sp_chunk \/ sp_return
    \/ rc_start \/ rc_upload \/ rc_export \/ rc_next_chunk \/ rc_delete
    \/ oc_start \/ oc_mkdir \/ oc_auto_convert
    \/ oc_converted \/ oc_convert_except \/ oc_split \/ oc_split_done
    \/ oc_ocr_call \/ oc_ocr_done \/ oc_combine_open \/ oc_combine_step
    \/ oc_combine_close \/ oc_remove_chunk \/ oc_finish

SpecMain == InitMain /\ [][NextMain]_vars

(***************************************************************************)
(* The batch driver on a directory with more in it: two files whose names  *)
(* differ in the letter case of the extension only, a subdirectory whose   *)
(* name ends in a listed extension, a file of an unlisted type; and called *)
(* with type lists that repeat an entry or spell it in upper case.         *)
(***************************************************************************)
ScanPages == 1

TwinLower == Join(Root, <<"x", ".", "j", "p", "g">>)
TwinUpper == Join(Root, <<"x", ".", "J", "P", "G">>)
SubDir == Join(Root, <<"k", ".", "j", "p", "g">>)
InputPdfUpper == Join(Root, <<"a", ".", "P", "D", "F">>)

T_jpg == <<"j", "p", "g">>

\* the file-type lists of these runs; <<>> stands for None
ScanTypes ==
    { <<>>, <<T_jpg>>, <<T_jpg, T_jpg>>, <<T_pdf, T_pdf>>, <<T_jpg, T_pdf>>,
      << <<"J", "P", "G">> >> }

InitScan ==
    /\ \E P \in 0..ScanPages, twin \in {"none", "jpg", "pdf"} :
         LET base == (Root :> Dir) @@ (InputPdf :> SourceDoc(P))
                     @@ (TwinLower :> Blob) @@ (SubDir :> Dir) @@ (NoteTxt :> Blob)
         IN  fs = CASE twin = "none" -> base
                    [] twin = "jpg" -> base @@ (TwinUpper :> Blob)
                    [] twin = "pdf" -> base @@ (InputPdfUpper :> SourceDoc(ScanPages))
    /\ fs0 = fs
    /\ service = "None"
    /\ pages_per_chunk \in 1..MaxChunkSize
    /\ PDF_TO_IMAGE_AVAILABLE \in BOOLEAN
    /\ remote = <<>>
    /\ next_id = 1
    /\ drive_log = <<>>
    /\ render_calls = 0
    /\ pc = "idle"
    /\ call = [op |-> "none"]
    /\ outcome = NoOutcome
    /\ cv = NoCv
    /\ sp = NoSp
    /\ rc = NoRc
    /\ oc = NoOc
    /\ au = NoAu
    /\ bt = NoBt
    /\ mn = NoMn

\* top level: ocr.scan_and_process_directory(directory, file_types, auto_convert)
CallScanWithTypes ==
    /\ pc = "idle"
    /\ \E file_types \in ScanTypes, auto_convert \in BOOLEAN :
         /\ call' = [op |-> "scan_and_process_directory", input |-> Root,
                     file_types |-> file_types, auto_convert |-> auto_convert]
         /\ bt' = BtFrame("top", Root, file_types, auto_convert)
    /\ pc' = "bt_start"
    /\ UNCHANGED <<fs, fs0, service, pages_per_chunk, PDF_TO_IMAGE_AVAILABLE,
                   render_calls, outcome, cv, sp, rc, oc, au, mn>>
    /\ UNCH_drive

NextScan ==
    \/ CallScanWithTypes \/ bt_start \/ bt_mkdir \/ bt_scan
    \/ bt_pdf \/ bt_pdf_done \/ bt_pdfs_end \/ bt_type \/ bt_file
    \/ bt_file_done \/ bt_files_end \/ bt_return
    \/ authenticate
    \/ cv_start \/ cv_render \/ cv_page \/ cv_write \/ cv_stat \/ cv_except
    \/ sp_start \/ sp_chunk \/ sp_return
    \/ rc_start \/ rc_upload \/ rc_export \/ rc_next_chunk \/ rc_delete
    \/ oc_start \/ oc_mkdir \/ oc_auto_convert
    \/ oc_converted \/ oc_convert_except \/ oc_split \/ oc_split_done
    \/ oc_ocr_call \/ oc_ocr_done \/ oc_combine_open \/ oc_combine_step
    \/ oc_combine_close \/ oc_remove_chunk \/ oc_finish

SpecScan == InitScan /\ [][NextScan]_vars

(***************************************************************************)
(* Runs of the API with a chunk size that is not positive.  The            *)
(* constructor stores pages_per_chunk as given (line 174) and --chunk-size *)
(* is parsed with type=int (lines 558-559, 580-581): every integer is      *)
(* accepted.                                                               *)
(***************************************************************************)
\* the chunk sizes of these runs are -MaxNegChunkSize .. 0
MaxNegChunkSize == 2

InitChunkSize ==
    /\ \E P \in 0..MaxPages, pre \in BOOLEAN :
         LET base == (Root :> Dir) @@ (InputPdf :> SourceDoc(P)) @@ (ScanJpg :> Blob)
             stale == (OutPdf :> Blob)
                      @@ (Join(Root, Stem(Name(InputPdf)) \o S_processing) :> Dir)
         IN  fs = IF pre THEN base @@ stale ELSE base
    /\ fs0 = fs
    /\ service = "None"
    /\ pages_per_chunk \in (0 - MaxNegChunkSize)..0
    /\ PDF_TO_IMAGE_AVAILABLE \in BOOLEAN
    /\ remote = <<>>
    /\ next_id = 1
    /\ drive_log = <<>>
    /\ render_calls = 0
    /\ pc = "idle"
    /\ call = [op |-> "none"]
    /\ outcome = NoOutcome
    /\ cv = NoCv
    /\ sp = NoSp
    /\ rc = NoRc
    /\ oc = NoOc
    /\ au = NoAu
    /\ bt = NoBt
    /\ mn = NoMn

SpecChunkSize == InitChunkSize /\ [][Next]_vars

(***************************************************************************)
(* Properties.                                                             *)
(***************************************************************************)
\* the paths whose presence or content differs between two file systems
ChangedPaths(f, g) ==
    {p \in DOMAIN f \cup DOMAIN g :
        ~(p \in DOMAIN f /\ p \in DOMAIN g /\ f[p] = g[p])}

Range(seq) == {seq[i] : i \in 1..Len(seq)}

\* ceil(P / C) for C > 0: the least n with n * C >= P
Ceil(P, C) == CHOOSE n \in 0..P : n * C >= P /\ \A m \in 0..P : m * C >= P => n <= m

\* the splitter has just returned, to the top level or to ocr_pdf_chunked
SplitterReturned ==
    \/ pc = "done" /\ call.op \in {"split_pdf", "split_pdf_to_folder"}
                   /\ outcome.status = "returned"
    \/ pc = "oc_split_done"

\* what the splitter returned
SplitResult == IF pc = "done" THEN outcome.value ELSE sp.chunk_files

\* C1: for a document of P >= 0 pages and a chunk size C > 0, split_pdf and
\* split_pdf_to_folder return exactly ceil(P/C) chunk files and write exactly
\* those files and nothing else; with P = 0 they return no chunk and write no
\* file.
C1_ChunkCount ==
    /\ NumChunks(25, 10) = 3 /\ NumChunks(20, 10) = 2
    /\ NumChunks(15, 10) = 2 /\ NumChunks(1, 10) = 1
    /\ SplitterReturned =>
         LET P == Len(fs[sp.input_pdf].pages)
             written == ChangedPaths(sp.fs_at_call, fs)
         IN  /\ Len(SplitResult) = Ceil(P, pages_per_chunk)
             /\ written = Range(SplitResult)
             /\ Cardinality(written) = Ceil(P, pages_per_chunk)
             /\ \A p \in written : IsFile(fs, p)
             /\ P = 0 => SplitResult = <<>> /\ fs = sp.fs_at_call

\* a split of 4 pages with chunk size 3 has returned its 2 chunks
C1_Witness ==
    /\ pc = "done" /\ call.op = "split_pdf" /\ outcome.status = "returned"
    /\ Len(fs[InputPdf].pages) = 4 /\ pages_per_chunk = 3
    /\ Len(outcome.value) = 2

RECURSIVE ConcatChunks(_, _)
ConcatChunks(f, files) ==
    IF files = <<>> THEN <<>>
    ELSE f[Head(files)].pages \o ConcatChunks(f, Tail(files))

\* C2: the k-th chunk (k from 0) holds exactly the source pages
\* [k*C, min((k+1)*C, P)) in ascending order; every chunk is non-empty and has
\* at most C pages, only the last may have fewer than C, and the chunks
\* concatenated in returned order are the source's page sequence.
C2_ChunkRanges ==
    SplitterReturned =>
      LET src == fs[sp.input_pdf].pages
          P == Len(src)
          C == pages_per_chunk
          n == Len(SplitResult)
          chunk(k) == fs[SplitResult[k + 1]].pages
      IN  /\ \A k \in 0..(n - 1) :
                /\ chunk(k) = SubSeq(src, k * C + 1, Min((k + 1) * C, P))
                /\ Len(chunk(k)) >= 1 /\ Len(chunk(k)) <= C
                /\ k < n - 1 => Len(chunk(k)) = C
                /\ \A j \in 1..Len(chunk(k)) : chunk(k)[j].num = k * C + j - 1
          /\ ConcatChunks(fs, SplitResult) = src

\* a split of 4 pages with chunk size 3 has returned chunks of 3 pages and 1 page
C2_Witness ==
    /\ pc = "done" /\ call.op = "split_pdf_to_folder"
    /\ outcome.status = "returned"
    /\ Len(fs[InputPdf].pages) = 4 /\ pages_per_chunk = 3
    /\ Len(outcome.value) = 2
    /\ Len(fs[outcome.value[1]].pages) = 3
    /\ Len(fs[outcome.value[2]].pages) = 1

\* the uploads attempted so far, in order
Creates == SelectSeq(drive_log, LAMBDA e : e.op = "create")

\* the text of chunk m as ocr_pdf_chunked reads it: the text the remote
\* service exported for the m-th upload, newlines translated
ChunkText(m) == ReadText(remote[Creates[m].id].text)

OcReturned ==
    pc = "done" /\ call.op = "ocr_pdf_chunked" /\ outcome.status = "returned"

FinalText == fs[outcome.value].data

\* the least position >= from at which t occurs in data, or 0
Find(data, t, from) ==
    LET at == {p \in from..(Len(data) - Len(t) + 1) :
                  SubSeq(data, p, p + Len(t) - 1) = t}
    IN  IF at = {} THEN 0 ELSE CHOOSE p \in at : \A q \in at : p <= q

\* the texts occur in data one after the other, from position `from` on
RECURSIVE ContainsInOrder(_, _, _)
ContainsInOrder(data, texts, from) ==
    IF texts = <<>> THEN TRUE
    ELSE LET p == Find(data, Head(texts), from)
         IN  p > 0 /\ ContainsInOrder(data, Tail(texts), p + Len(Head(texts)))

RECURSIVE Interleaved(_)
Interleaved(n) ==
    IF n = 1 THEN ChunkText(1)
    ELSE Interleaved(n - 1) \o Separator(n - 1) \o ChunkText(n)

\* C4: for a run with n >= 1 chunks the final text is text_1, separator_1,
\* text_2, ..., separator_(n-1), text_n: n-1 separators, separator i between
\* chunk i and chunk i+1 and holding the 1-based index i, nothing after the
\* last chunk's text.
C4_Separators ==
    OcReturned /\ Len(oc.text_files) >= 1 =>
      LET n == Len(oc.text_files)
      IN  /\ FinalText = Interleaved(n)
          /\ \A i \in 1..(n - 1) :
                /\ Find(Separator(i), <<" ">> \o FormatInt(i) \o <<" ">>, 1) > 0
                /\ \A j \in 1..(n - 1) : i # j => Separator(i) # Separator(j)
          /\ n = 1 => FinalText = ChunkText(1)

\* a run over 3 chunks with non-empty texts has returned
C4_Witness ==
    /\ OcReturned
    /\ Len(oc.text_files) = 3
    /\ \A m \in 1..3 : ChunkText(m) = <<"a", "\n">>

\* the separator line after chunk 1, with `width` '=' characters on each side
Chunk1End(width) ==
    <<"\n", "\n">> \o Repeat("=", width)
    \o <<" ", "C", "h", "u", "n", "k", " ", "1", " ", "E", "n", "d", " ">>
    \o Repeat("=", width) \o <<"\n", "\n">>

\* C5 as stated: recognizing a 2-chunk document yields <chunk1 text>, "\n\n",
\* 32 '=', " Chunk 1 End ", 32 '=', "\n\n", <chunk2 text>.
C5_Original ==
    OcReturned /\ Len(oc.text_files) = 2 =>
      FinalText = ChunkText(1) \o Chunk1End(32) \o ChunkText(2)

\* C5 as amended: recognizing a 2-chunk document yields one output text file
\* whose content is <chunk1 text>, "\n\n", 50 '=', " Chunk 1 End ", 50 '=',
\* "\n\n", <chunk2 text>, with no trailing separator.
C5_TwoChunks ==
    OcReturned /\ Len(oc.text_files) = 2 =>
      /\ IsFile(fs, outcome.value)
      /\ FinalText = ChunkText(1) \o Chunk1End(50) \o ChunkText(2)

\* a run over 2 chunks with non-empty texts has returned
C5_Witness ==
    /\ OcReturned
    /\ Len(oc.text_files) = 2
    /\ \A m \in 1..2 : ChunkText(m) = <<"a", "\n">>

\* a top-level ocr_file call has ended
OcrFileEnded == pc = "done" /\ call.op = "ocr_file"

\* C6: ocr_file called with no authenticated session (service unset) raises
\* RuntimeError for every declared file type, issues no upload, export or
\* delete call and creates no output file.
C6_NotAuthenticated ==
    OcrFileEnded /\ service = "None" =>
      /\ outcome = Raised("RuntimeError")
      /\ drive_log = <<>> /\ remote = <<>>
      /\ ~Exists(fs, call.output)
      /\ fs = fs0

\* ocr_file without a session, declared type "xyz", has raised RuntimeError
C6_Witness ==
    /\ OcrFileEnded /\ service = "None"
    /\ call.file_type = <<"x", "y", "z">>
    /\ outcome.exc = "RuntimeError"

SupportedTypes ==
    { <<"p", "d", "f">>, <<"j", "p", "g">>, <<"j", "p", "e", "g">>,
      <<"p", "n", "g">>, <<"g", "i", "f">>, <<"b", "m", "p">>, <<"d", "o", "c">> }

\* C7: ocr_file called with a session and a declared type whose lower-cased
\* form is not one of pdf, jpg, jpeg, png, gif, bmp, doc raises ValueError
\* before any upload, export or delete call and without creating the output
\* file.
C7_UnsupportedType ==
    OcrFileEnded /\ service = "drive" /\ Lower(call.file_type) \notin SupportedTypes =>
      /\ outcome = Raised("ValueError")
      /\ drive_log = <<>> /\ remote = <<>>
      /\ ~Exists(fs, call.output)
      /\ fs = fs0

\* ocr_file with a session, declared type "txt", has raised ValueError
C7_Witness ==
    /\ OcrFileEnded /\ service = "drive"
    /\ call.file_type = <<"t", "x", "t">>
    /\ outcome.exc = "ValueError"

\* ocr_file has just returned, to the top level or to ocr_pdf_chunked
OcrFileReturned ==
    \/ OcrFileEnded /\ outcome.status = "returned"
    \/ pc = "oc_ocr_done"

\* C8: a successful ocr_file call issues, in this order, one upload, the
\* export of the uploaded id as text/plain, and one delete of that id after
\* the export is complete; the destination file holds the exported bytes.
C8_UploadExportDelete ==
    OcrFileReturned =>
      LET seg == SubSeq(drive_log, rc.log_start + 1, Len(drive_log))
          n == Len(seg)
      IN  /\ n >= 3
          /\ seg[1].op = "create" /\ seg[1].ok
          /\ seg[1].name = Name(rc.input_file)
          /\ \A x \in 2..(n - 1) :
                seg[x] = DriveCall("export", seg[1].id, <<>>, "text/plain", TRUE)
          /\ seg[n] = DriveCall("delete", seg[1].id, <<>>, "None", TRUE)
          /\ Cardinality({x \in 1..n : seg[x].op = "create"}) = 1
          /\ Cardinality({x \in 1..n : seg[x].op = "delete"}) = 1
          /\ fs[rc.output_file] = Txt(remote[seg[1].id].text)
          /\ ~remote[seg[1].id].live

\* ocr_file has returned after an export delivered in two pieces
C8_Witness ==
    /\ OcrFileEnded /\ outcome.status = "returned"
    /\ Len(drive_log) = 4
    /\ fs[OutTxt].data = <<"a", "\r", "\n">>

\* convert has just reported a failure, to the top level or to ocr_pdf_chunked
ConvertRaised ==
    /\ cv.status = "raised"
    /\ \/ pc = "done" /\ call.op = "convert"
       \/ pc = "oc_convert_except"

\* C9: if convert fails after its input-existence check (rendering or
\* encoding a page, building the container, writing the file, reading the
\* file sizes), no file exists at the output path when the failure is
\* reported.
C9_NoPartialOutput ==
    ConvertRaised /\ Exists(cv.fs_at_call, cv.input_path) =>
      /\ ~IsFile(fs, cv.output_path)
      /\ ~IsDir(fs, cv.output_path) =>
            cv.exc = "ConversionFailed" /\ ~Exists(fs, cv.output_path)

\* convert has failed after its output file was opened for writing
C9_Witness ==
    /\ ConvertRaised /\ Exists(cv.fs_at_call, cv.input_path)
    /\ cv.opened
    /\ ~Exists(fs, cv.output_path)

\* C10: convert on a source path that does not exist raises FileNotFoundError,
\* not wrapped as a conversion failure, before any page is rendered, and
\* neither creates nor removes a file.
C10_InputNotFound ==
    /\ ConvertRaised /\ ~Exists(cv.fs_at_call, cv.input_path) =>
         /\ cv.exc = "FileNotFoundError"
         /\ pc = "done" => outcome = Raised("FileNotFoundError")
         /\ render_calls = 0
         /\ fs = cv.fs_at_call
    /\ (pc = "done" /\ call.op = "convert" /\ ~Exists(fs0, call.input)) => ConvertRaised

\* convert on the missing source has raised FileNotFoundError
C10_Witness ==
    /\ pc = "done" /\ call.op = "convert" /\ call.input = MissingPdf
    /\ outcome.exc = "FileNotFoundError"
    /\ fs = fs0

\* C11: a rendered page is coerced to RGB before it is encoded if and only if
\* its mode is outside {RGB, RGBA, L, P, CMYK}; CMYK and grayscale pages are
\* never coerced, and a page in any other mode is coerced exactly once and
\* encoded as RGB.
C11_Coercion ==
    cv.last.mode # "none" =>
      LET accepted == cv.last.mode \in {"RGB", "RGBA", "L", "P", "CMYK"}
      IN  /\ cv.last.converts = (IF accepted THEN 0 ELSE 1)
          /\ cv.last.mode \in {"CMYK", "L"} => cv.last.converts = 0
          /\ cv.last.saved = (IF accepted THEN cv.last.mode ELSE "RGB")

\* a CMYK page was encoded as it is, and a LAB page after one coercion
C11_WitnessCmyk ==
    cv.last = [mode |-> "CMYK", converts |-> 0, saved |-> "CMYK"]

C11_Witness ==
    /\ cv.last = [mode |-> "LAB", converts |-> 1, saved |-> "RGB"]
    /\ Len(cv.image_bytes_list) = 2

\* C12: in ocr_pdf_chunked a failed rasterization (auto-conversion on, the
\* rasterizer available) does not end the run: the splitter is then applied
\* to the original document and the run goes on; with auto-conversion off or
\* the rasterizer unavailable the rasterizer is never invoked and the original
\* document is split.
C12_Fallback ==
    call.op = "ocr_pdf_chunked" =>
      /\ ~(oc.auto_convert /\ PDF_TO_IMAGE_AVAILABLE) =>
            /\ cv = NoCv /\ render_calls = 0
            /\ sp.status # "idle" => sp.input_pdf = oc.pdf_path
      /\ cv.status = "raised" =>
            /\ pc = "oc_convert_except" \/ oc.convert_failed
            /\ pc = "oc_convert_except" => outcome = NoOutcome
            /\ pc = "done" => sp.status # "idle"
      /\ oc.convert_failed =>
            /\ cv.status = "raised"
            /\ oc.pdf_to_process = oc.pdf_path
            /\ sp.status # "idle" =>
                  /\ sp.input_pdf = oc.pdf_path
                  /\ sp.output_folder = oc.processing_folder
            /\ \A m \in 1..Len(Creates) :
                  Creates[m].name = ChunkName(oc.pdf_path, m - 1)
      /\ cv.status = "returned" /\ sp.status # "idle" =>
            sp.input_pdf = ImagePdfPath(oc.pdf_path)

\* a run whose rasterization failed has split the original into 2 chunks,
\* recognised them, written the final text, removed the chunks and returned
C12_Witness ==
    /\ OcReturned /\ oc.convert_failed /\ cv.exc = "ConversionFailed"
    /\ Len(oc.text_files) = 2 /\ ~oc.keep_chunks
    /\ \A m \in 1..2 : ~Exists(fs, oc.chunk_files[m])
    /\ Len(FinalText) > 0

\* a run with auto-conversion on and no rasterizer has returned
C12_WitnessUnavailable ==
    /\ OcReturned /\ oc.auto_convert /\ ~PDF_TO_IMAGE_AVAILABLE
    /\ Len(oc.text_files) = 2

\* C13: after a successful ocr_pdf_chunked run with keep-chunks off no chunk
\* PDF and no per-chunk text file of that run remains, while the final text
\* file and the processing folder remain; with keep-chunks on every chunk PDF
\* and every per-chunk text file remains.
C13_ChunkCleanup ==
    OcReturned =>
      LET chunks == Range(oc.chunk_files)
          texts == Range(oc.text_files)
      IN  /\ Len(oc.text_files) = Len(oc.chunk_files)
          /\ \A k \in 1..Len(oc.chunk_files) :
                oc.text_files[k] = WithSuffix(oc.chunk_files[k], S_txt)
          /\ ~oc.keep_chunks =>
                /\ \A p \in chunks \cup texts : ~Exists(fs, p)
                /\ ChangedPaths(fs0, fs) \subseteq
                      {outcome.value, oc.processing_folder,
                       ImagePdfPath(oc.pdf_path), oc.pdf_path}
          /\ oc.keep_chunks =>
                /\ \A p \in chunks : IsFile(fs, p) /\ fs[p].kind = "pdf"
                /\ \A k \in 1..Len(oc.text_files) :
                      /\ IsFile(fs, oc.text_files[k])
                      /\ fs[oc.text_files[k]].data = remote[Creates[k].id].text
          /\ IsFile(fs, outcome.value)
          /\ IsDir(fs, oc.processing_folder)

\* a run over 2 chunks with keep-chunks off has returned
C13_Witness ==
    /\ OcReturned /\ ~oc.keep_chunks /\ Len(oc.chunk_files) = 2
    /\ ~Exists(fs, oc.chunk_files[1]) /\ ~Exists(fs, oc.text_files[2])

\* a run over 2 chunks with keep-chunks on has returned
C13_WitnessKeep ==
    /\ OcReturned /\ oc.keep_chunks /\ Len(oc.chunk_files) = 2
    /\ IsFile(fs, oc.chunk_files[1]) /\ IsFile(fs, oc.text_files[2])

\* the call of ocr_pdf_chunked has ended, one way or the other
OcEnded == pc = "done" /\ call.op = "ocr_pdf_chunked"

\* C14: ocr_pdf_chunked removes the original only when delete-original is set
\* and only after conversion or fallback, splitting, recognition of every
\* chunk, concatenation and chunk clean-up have all succeeded; if an earlier
\* step fails, or delete-original is not set, the original is still there,
\* unchanged, when the call ends.
C14_DeleteOriginalLast ==
    call.op = "ocr_pdf_chunked" /\ Exists(fs0, call.input) =>
      /\ ~Exists(fs, call.input) =>
            /\ call.delete_original
            /\ OcReturned
            /\ cv.status # "running" /\ sp.status = "returned"
            /\ Len(oc.text_files) = Len(oc.chunk_files)
            /\ Len(Creates) = Len(oc.chunk_files)
            /\ \A x \in 1..Len(drive_log) : drive_log[x].ok
            /\ oc.i > Len(oc.text_files)
            /\ IsFile(fs, oc.output_path)
            /\ ~oc.keep_chunks =>
                  \A k \in 1..Len(oc.chunk_files) : ~Exists(fs, oc.chunk_files[k])
      /\ Exists(fs, call.input) => fs[call.input] = fs0[call.input]
      /\ OcEnded /\ (outcome.status = "raised" \/ ~call.delete_original) =>
            Exists(fs, call.input)
      /\ OcReturned /\ call.delete_original => ~Exists(fs, call.input)

\* a run with delete-original set has failed while recognising its second
\* chunk, and the original is still there
C14_WitnessFailed ==
    /\ OcEnded /\ call.delete_original /\ outcome.status = "raised"
    /\ Len(Creates) = 2 /\ Exists(fs, call.input)

\* a run over 2 chunks with delete-original set has returned, the original gone
C14_Witness ==
    /\ OcReturned /\ call.delete_original /\ Len(oc.chunk_files) = 2
    /\ Exists(fs0, call.input) /\ ~Exists(fs, call.input)

Dirs(f) == {p \in DOMAIN f : f[p].kind = "dir"}

\* the call of ocr_pdf_chunked is past authentication and the mkdir of line 319
OcPastMkdir ==
    /\ call.op = "ocr_pdf_chunked"
    /\ service = "drive"
    /\ pc \notin {"oc_start", "oc_mkdir"}

\* C15: creating the processing folder is idempotent: when <stem>_processing
\* already exists the run reuses it, without error and without a second
\* folder; after any call that got past authentication the folder
\* <stem>_processing exists next to the input.
C15_ProcessingFolder ==
    OcPastMkdir =>
      LET folder == Join(Parent(call.input),
                         Stem(Name(call.input)) \o S_processing)
      IN  /\ IsDir(fs, folder)
          /\ oc.processing_folder = folder
          /\ Dirs(fs) = Dirs(fs0) \cup {folder}
          /\ IsDir(fs0, folder) =>
                /\ Dirs(fs) = Dirs(fs0)
                /\ outcome.exc \notin {"OSError", "FileExistsError"}

\* a run on an input whose processing folder was already there has returned
C15_Witness ==
    /\ OcReturned
    /\ IsDir(fs0, ProcessingFolder(call.input))
    /\ IsDir(fs, ProcessingFolder(call.input))
    /\ Parent(outcome.value) = ProcessingFolder(call.input)

\* a run on a missing input has created the folder and then failed
C15_WitnessMissing ==
    /\ OcEnded /\ call.input = MissingPdf /\ outcome.status = "raised"
    /\ ~Exists(fs0, ProcessingFolder(MissingPdf))
    /\ IsDir(fs, ProcessingFolder(MissingPdf))

\* the remote calls of the current (or last) invocation of ocr_file
RcCalls == SubSeq(drive_log, rc.log_start + 1, Len(drive_log))

\* C19: ocr_file never retries a remote operation: a failed upload, export or
\* delete is the last remote call of the invocation, the service's error
\* leaves ocr_file (and its caller ocr_pdf_chunked) as it is, and the upload
\* and the delete are each attempted at most once per invocation.
C19_NoRetry ==
    rc.status # "idle" =>
      LET seg == RcCalls
          n == Len(seg)
      IN  /\ Cardinality({x \in 1..n : seg[x].op = "create"}) <= 1
          /\ Cardinality({x \in 1..n : seg[x].op = "delete"}) <= 1
          /\ \A x \in 1..n : seg[x].op = "create" => x = 1
          /\ \A x \in 1..n : seg[x].op = "delete" => x = n
          /\ \A x \in 1..n :
                ~seg[x].ok =>
                  /\ x = n
                  /\ rc.status = "raised" /\ rc.exc = "HttpError"
                  /\ pc = "done" /\ outcome = Raised("HttpError")
                  /\ rc.caller = "oc" => oc.status = "raised" /\ oc.exc = "HttpError"
          /\ \A x \in 1..Len(drive_log) : ~drive_log[x].ok => x = Len(drive_log)
          /\ rc.exc = "HttpError" => n >= 1 /\ ~seg[n].ok

\* an invocation has ended with the service's error, its delete having failed
C19_Witness ==
    /\ rc.status = "raised" /\ rc.exc = "HttpError"
    /\ Len(RcCalls) >= 3
    /\ RcCalls[Len(RcCalls)] = DriveCall("delete", rc.file_id, <<>>, "None", FALSE)

\* an invocation has ended with the service's error, its upload having failed
C19_WitnessUpload ==
    /\ rc.status = "raised" /\ rc.caller = "oc" /\ Len(Creates) = 2
    /\ RcCalls = <<DriveCall("create", 0, ChunkName(oc.pdf_to_process, 1),
                              "application/pdf", FALSE)>>

\* an invocation has ended with the service's error, its export having failed
C19_WitnessExport ==
    /\ rc.status = "raised" /\ Len(RcCalls) = 3
    /\ RcCalls[3] = DriveCall("export", rc.file_id, <<>>, "text/plain", FALSE)

\* split_pdf_to_folder has just returned, to the top level or to ocr_pdf_chunked
SplitToFolderReturned == SplitterReturned /\ sp.fn = "split_pdf_to_folder"

\* C20: split_pdf_to_folder writes the k-th chunk (k from 1) to
\* <destination folder>/<stem>_chunk_<k>.pdf, the stem being that of the
\* document handed to the splitter; the returned list is in ascending k, every
\* returned path lies directly in the destination folder, the paths are
\* pairwise distinct, and there is one file per chunk.
C20_ChunkPaths ==
    /\ ChunkName(<< <<"d">>, <<"x", ".", "y", ".", "p", "d", "f">> >>, 11)
         = <<"x", ".", "y", "_", "c", "h", "u", "n", "k", "_", "1", "2",
             ".", "p", "d", "f">>
    /\ SplitToFolderReturned =>
         LET n == Len(SplitResult)
             stem == Stem(Name(sp.input_pdf))
         IN  /\ \A k \in 1..n :
                   /\ SplitResult[k] =
                        Append(sp.output_folder,
                               stem \o <<"_", "c", "h", "u", "n", "k", "_">>
                                    \o FormatNat(k) \o <<".", "p", "d", "f">>)
                   /\ Parent(SplitResult[k]) = sp.output_folder
                   /\ IsFile(fs, SplitResult[k])
                   /\ fs[SplitResult[k]].kind = "pdf"
                   /\ Len(fs[SplitResult[k]].pages) >= 1
                   /\ fs[SplitResult[k]].pages[1].num = (k - 1) * pages_per_chunk
             /\ \A j, k \in 1..n : j # k => SplitResult[j] # SplitResult[k]
             /\ Cardinality(Range(SplitResult)) = n
             /\ ChangedPaths(sp.fs_at_call, fs) = Range(SplitResult)

\* ocr_pdf_chunked has split the image PDF into a_image_chunk_1.pdf and
\* a_image_chunk_2.pdf in the processing folder
C20_Witness ==
    /\ pc = "oc_split_done" /\ sp.fn = "split_pdf_to_folder"
    /\ sp.input_pdf = ImagePdfPath(InputPdf)
    /\ Len(sp.chunk_files) = 2
    /\ Name(sp.chunk_files[2]) =
         <<"a", "_", "i", "m", "a", "g", "e", "_", "c", "h", "u", "n", "k", "_",
           "2", ".", "p", "d", "f">>

\* a top-level call has returned 3 chunk paths in the folder it was given
C20_WitnessTop ==
    /\ pc = "done" /\ call.op = "split_pdf_to_folder"
    /\ outcome.status = "returned" /\ Len(outcome.value) = 3
    /\ call.folder = Root

(***************************************************************************)
(* Properties of the batch driver, checked under SpecBatch.                *)
(***************************************************************************)
\* the call of scan_and_process_directory has ended, one way or the other
BatchEnded == pc = "done" /\ call.op = "scan_and_process_directory"
BatchReturned == BatchEnded /\ outcome.status = "returned"

\* the files the scan of lines 449-453 put into files_by_type
Discovered ==
    UNION {Range(bt.files_by_type[ft]) : ft \in DOMAIN bt.files_by_type}

\* the output the batch run wrote for a discovered file
BatchOutput(p) ==
    LET stem == Stem(Name(p))
        under == IF Ext(Name(p)) = <<"p", "d", "f">>
                 THEN <<bt.batch_folder, stem>>
                 ELSE <<bt.batch_folder, Ext(Name(p)) \o S_files, stem>>
    IN  Append(under[1] \o SubSeq(under, 2, Len(under)), stem \o S_ocr_text_txt)

\* C16 as stated: a failure while processing one discovered file does not
\* abort the batch: every other discovered file is still processed and gets
\* its own output.
C16_Original ==
    BatchEnded /\ bt.files_by_type # <<>> =>
      /\ Cardinality(Discovered \ Range(bt.processed)) <= 1
      /\ \A p \in Range(bt.processed) : IsFile(fs, BatchOutput(p))

\* the batch over a.pdf and s.JPG has ended with the failure of a.pdf's
\* upload, and s.JPG was not processed
C16_Witness ==
    /\ BatchEnded /\ outcome = Raised("HttpError")
    /\ bt.processed = <<>>
    /\ Discovered = {InputPdf, ScanJpg}
    /\ Len(drive_log) = 1

\* the layout of a finished batch, but for the image PDF
BatchLayout ==
    LET batch == Append(call.input, S_batch_processing \o TimeStamp)
    IN  /\ bt.batch_folder = batch /\ IsDir(fs, batch)
        /\ {p \in DOMAIN fs \ DOMAIN fs0 : Parent(p) = call.input} = {batch}
        /\ \A p \in DOMAIN fs0 : fs[p] = fs0[p]
        /\ Range(bt.processed) = Discovered
        /\ Len(bt.processed) = Cardinality(Discovered)
        /\ \A p \in Discovered :
              LET stem == Stem(Name(p))
                  folder == IF Ext(Name(p)) = <<"p", "d", "f">>
                            THEN Append(batch, stem)
                            ELSE Append(Append(batch, Ext(Name(p)) \o S_files), stem)
              IN  /\ IsDir(fs, folder)
                  /\ fs[Append(folder, Name(p))] = fs0[p]
                  /\ IsFile(fs, Append(folder, stem \o S_ocr_text_txt))
                  /\ fs[Append(folder, stem \o S_ocr_text_txt)].kind = "txt"
        \* a PDF goes through the chunked pipeline, another file through one
        \* upload of its copy
        /\ \A m \in 1..Len(Creates) :
              \/ /\ Creates[m].mime = "application/pdf"
                 /\ \E p \in Discovered, k \in 1..MaxPages + 1 :
                       /\ Ext(Name(p)) = <<"p", "d", "f">>
                       /\ Creates[m].name \in
                            {Stem(Name(p)) \o S_chunk \o FormatNat(k) \o S_pdf,
                             Stem(Name(p)) \o <<"_", "i", "m", "a", "g", "e">>
                                \o S_chunk \o FormatNat(k) \o S_pdf}
              \/ /\ Creates[m].mime # "application/pdf"
                 /\ \E p \in Discovered : Creates[m].name = Name(p)
        /\ \A p \in Discovered :
              Ext(Name(p)) # <<"p", "d", "f">> =>
                Cardinality({m \in 1..Len(Creates) : Creates[m].name = Name(p)}) = 1

\* the image PDFs found anywhere under <batch>/<stem>/
ImagePdfsUnder(p) ==
    {q \in DOMAIN fs :
        /\ Len(q) > Len(bt.batch_folder) + 1
        /\ SubSeq(q, 1, Len(bt.batch_folder) + 1)
             = Append(bt.batch_folder, Stem(Name(p)))
        /\ Name(q) = Stem(Name(p)) \o S_image_pdf}

DiscoveredPdfs == {p \in Discovered : Ext(Name(p)) = <<"p", "d", "f">>}

\* C17 as stated: ... for each discovered PDF the subfolder <batch>/<pdf stem>/
\* holds a copy of the PDF, its converted image PDF when auto-convert is
\* enabled, and the OCR text ...
C17_Original ==
    BatchReturned =>
      /\ BatchLayout
      /\ \A p \in DiscoveredPdfs :
            bt.auto_convert => ImagePdfsUnder(p) # {}

\* C17 as amended: a batch run that returns has created one folder
\* batch_processing_<timestamp> inside the directory; for each discovered PDF
\* the subfolder <batch>/<stem>/ holds a copy of the PDF and the OCR text
\* <stem>_ocr_text.txt, and its subfolder <stem>_processing/ holds the image
\* PDF <stem>_image.pdf exactly when auto-convert is enabled, the rasterizer
\* is available and the rasterization succeeded; for each discovered non-PDF
\* file of type T the subfolder <batch>/<T>_files/<stem>/ holds a copy of the
\* file and its OCR text; PDFs go through the chunked pipeline and non-PDF
\* files through a single direct ocr_file upload.
C17_BatchLayout ==
    BatchReturned =>
      /\ BatchLayout
      /\ \A p \in DiscoveredPdfs :
            LET stem == Stem(Name(p))
                image == <<bt.batch_folder[1],
                           S_batch_processing \o TimeStamp, stem,
                           stem \o S_processing, stem \o S_image_pdf>>
            IN  /\ ImagePdfsUnder(p) \subseteq {image}
                /\ Exists(fs, image) <=>
                     /\ bt.auto_convert /\ PDF_TO_IMAGE_AVAILABLE
                     /\ cv.status = "returned"

\* a batch over a.pdf (rasterized, two chunks) and s.JPG has returned
C17_Witness ==
    /\ BatchReturned
    /\ bt.processed = <<InputPdf, ScanJpg>>
    /\ Len(Creates) = 3
    /\ bt.auto_convert /\ cv.status = "returned"
    /\ IsFile(fs, << <<"d">>, S_batch_processing \o TimeStamp, <<"j", "p", "g">> \o S_files,
                    <<"s">>, <<"s">> \o S_ocr_text_txt>>)

\* a batch with auto-convert on has returned without an image PDF
C17_WitnessNoImage ==
    /\ BatchReturned /\ bt.auto_convert /\ DiscoveredPdfs # {}
    /\ \A p \in DiscoveredPdfs : ImagePdfsUnder(p) = {}

(***************************************************************************)
(* Properties of main, checked under SpecMain.                             *)
(***************************************************************************)
Exited == pc = "exited" /\ mn.status = "exited"

\* an error left a function called while the subcommand ran
ErrorRaised ==
    \/ outcome.status = "raised"
    \/ au.status = "raised" \/ cv.status = "raised" \/ sp.status = "raised"
    \/ rc.status = "raised" \/ oc.status = "raised"

\* C18 as stated: every error raised while executing a subcommand (a
\* conversion failure among them) reaches main, which ends the process with
\* exit status 1; no subcommand also exits with status 1; a subcommand that
\* completes without error does not exit with a non-zero status.
C18_Original ==
    Exited =>
      /\ mn.command = "none" => mn.exit_status = 1
      /\ mn.command # "none" /\ ErrorRaised => mn.exit_status = 1
      /\ mn.command # "none" /\ ~ErrorRaised => mn.exit_status = 0

\* the conversion failure that ocr_pdf_chunked catches and answers by going
\* on with the original document (lines 335-338)
FallbackTaken == cv.status = "raised" /\ cv.caller = "oc"

\* C18 as amended: every error raised while executing a subcommand, but for
\* a conversion failure in the optional rasterization of ocr and ocr-batch,
\* reaches main, which ends the process with exit status 1; no subcommand
\* also exits with status 1; a subcommand that completes, with or without
\* that fallback, ends the process with status 0.
C18_ExitStatus ==
    /\ Exited =>
         /\ mn.exit_status \in {0, 1}
         /\ mn.command = "none" => mn.exit_status = 1
         /\ mn.command # "none" =>
              /\ mn.exit_status = 1 <=> outcome.status = "raised"
              /\ (\/ au.status = "raised" \/ sp.status = "raised"
                  \/ rc.status = "raised" \/ oc.status = "raised"
                  \/ (cv.status = "raised" /\ cv.caller = "top"))
                   => outcome.status = "raised" /\ mn.exit_status = 1
              /\ outcome.status = "returned" => mn.exit_status = 0
              /\ mn.exit_status = 0 /\ cv.status = "raised" => FallbackTaken
    /\ ~Exited => mn.exit_status = -1

\* the ocr subcommand has ended with status 1 on a remote service error
C18_Witness ==
    /\ Exited /\ mn.command = "ocr" /\ mn.exit_status = 1
    /\ outcome = Raised("HttpError") /\ Len(drive_log) >= 3

\* the ocr subcommand has ended with status 0 after a failed rasterization
C18_WitnessFallback ==
    /\ Exited /\ mn.command = "ocr" /\ mn.exit_status = 0 /\ FallbackTaken

\* the error kinds that end main with status 1
C18_WitnessImport ==
    Exited /\ mn.command = "convert" /\ outcome = Raised("ImportError")
C18_WitnessType ==
    Exited /\ mn.input = NoteTxt /\ outcome = Raised("ValueError")
C18_WitnessNotFound ==
    Exited /\ mn.command = "ocr" /\ mn.input = MissingPdf
           /\ au.status = "returned" /\ outcome = Raised("FileNotFoundError")
C18_WitnessConversion ==
    Exited /\ mn.command = "convert" /\ outcome = Raised("ConversionFailed")
C18_WitnessBatch ==
    Exited /\ mn.command = "ocr-batch" /\ mn.exit_status = 0
           /\ Len(bt.processed) = 2

(***************************************************************************)
(* Further properties of the pipeline, checked under Spec.                 *)
(***************************************************************************)
\* the splitter works, or has worked, for the running call of ocr_pdf_chunked
OcSplitting == call.op = "ocr_pdf_chunked" /\ sp.caller = "oc"

\* the rasterizer has made the image PDF for the running call
OcConverted ==
    /\ call.auto_convert /\ PDF_TO_IMAGE_AVAILABLE
    /\ cv.caller = "oc" /\ cv.status = "returned"

\* the chunk files of the run: those the splitter has written so far
RunChunkNames == [k \in 1..Len(sp.chunk_files) |-> Name(sp.chunk_files[k])]

\* <stem>_chunk_<k>.pdf
NamedChunk(stem, k) ==
    stem \o <<"_", "c", "h", "u", "n", "k", "_">> \o FormatNat(k)
         \o <<".", "p", "d", "f">>

\* C21 as stated: the run uses <S>_processing next to the input, and every
\* chunk file written is <S>_chunk_<N>.pdf, S the stem of the input, whatever
\* the auto-convert option is.
C21_Original ==
    OcSplitting =>
      LET S == Stem(Name(call.input))
      IN  /\ oc.processing_folder = Join(Parent(call.input), S \o S_processing)
          /\ \A k \in 1..Len(sp.chunk_files) :
                /\ Parent(sp.chunk_files[k]) = oc.processing_folder
                /\ RunChunkNames[k] = NamedChunk(S, k)

\* C21, amended: the run uses <S>_processing next to the input and every chunk
\* file is written there; the chunk files are named <S>_chunk_<N>.pdf when the
\* original is split (auto-convert off, rasterizer unavailable, or conversion
\* failed) and <S>_image_chunk_<N>.pdf when the image PDF made by a successful
\* conversion is split.
C21_ChunkStem ==
    OcSplitting =>
      LET S == Stem(Name(call.input))
          T == IF OcConverted THEN S \o <<"_", "i", "m", "a", "g", "e">> ELSE S
      IN  /\ oc.processing_folder = Join(Parent(call.input), S \o S_processing)
          /\ IsDir(fs, oc.processing_folder)
          /\ \A k \in 1..Len(sp.chunk_files) :
                /\ Parent(sp.chunk_files[k]) = oc.processing_folder
                /\ RunChunkNames[k] = NamedChunk(T, k)
          /\ OcConverted <=> sp.input_pdf # call.input

\* a run with a successful conversion has written a_image_chunk_1.pdf and
\* a_image_chunk_2.pdf
C21_Witness ==
    /\ OcSplitting /\ OcConverted /\ sp.status = "returned"
    /\ RunChunkNames = <<NamedChunk(<<"a", "_", "i", "m", "a", "g", "e">>, 1),
                         NamedChunk(<<"a", "_", "i", "m", "a", "g", "e">>, 2)>>

\* a run with auto-convert on whose conversion failed has written a_chunk_1.pdf
C21_WitnessFallback ==
    /\ OcSplitting /\ call.auto_convert /\ oc.convert_failed
    /\ sp.status = "returned"
    /\ RunChunkNames = <<NamedChunk(<<"a">>, 1)>>

\* C22 as stated: whatever the output path is, the output path being the
\* input path included, and whether the call succeeds or fails, convert
\* neither overwrites nor deletes its input, and ocr_pdf_chunked never
\* overwrites its input and deletes it only when delete-original is set.
C22_Original ==
    /\ call.op = "convert" /\ Exists(fs0, call.input) =>
          Exists(fs, call.input) /\ fs[call.input] = fs0[call.input]
    /\ call.op = "ocr_pdf_chunked" /\ Exists(fs0, call.input) =>
          /\ Exists(fs, call.input) => fs[call.input] = fs0[call.input]
          /\ ~Exists(fs, call.input) => call.delete_original

\* convert called with its input as the output path has failed after the
\* file was opened for writing, and the input is gone
C22_Witness ==
    /\ pc = "done" /\ call.op = "convert" /\ call.output = call.input
    /\ outcome = Raised("ConversionFailed")
    /\ cv.opened
    /\ Exists(fs0, call.input) /\ ~Exists(fs, call.input)

\* convert called with its input as the output path has returned, the input
\* replaced by the image PDF
C22_WitnessOverwritten ==
    /\ pc = "done" /\ call.op = "convert" /\ call.output = call.input
    /\ outcome = Returned(call.input)
    /\ Len(fs0[call.input].pages) = 2
    /\ fs[call.input] # fs0[call.input]
    /\ \A k \in 1..2 : fs[call.input].pages[k].raster

\* the concatenation loop of lines 353-363 has not run to its end
ConcatUnfinished == call.op = "ocr_pdf_chunked" /\ oc.j = 0

\* C23 as stated: with keep-chunks off, no chunk PDF and no per-chunk text
\* file is deleted before the concatenation of all chunk texts has completed;
\* if the concatenation of chunk i+1 fails, the text files of chunks 1..i are
\* still there.
C23_Original ==
    ConcatUnfinished /\ ~call.keep_chunks =>
      \A p \in Range(oc.chunk_files) \cup Range(oc.text_files) : IsFile(fs, p)

\* C23, amended: with keep-chunks off no chunk PDF is deleted before the
\* concatenation of all chunk texts has completed, and the text file of chunk
\* k is deleted as soon as its own text has been appended to the final output,
\* before the next chunk is concatenated; if reading or writing fails while
\* chunk i+1 is being concatenated, the text files of chunks 1..i are gone,
\* their texts are in the final output file, and the text files of chunks
\* i+1..n and every chunk PDF still exist.
C23_TextFilesRemovedInTurn ==
    ConcatUnfinished /\ ~call.keep_chunks =>
      /\ \A p \in Range(oc.chunk_files) : IsFile(fs, p)
      /\ \A k \in 1..Len(oc.text_files) :
            IsFile(fs, oc.text_files[k]) <=> (oc.i = 0 \/ k >= oc.i)
      /\ oc.i >= 1 =>
            /\ Len(oc.text_files) = Len(oc.chunk_files)
            /\ IsFile(fs, oc.output_path)
            /\ ContainsInOrder(fs[oc.output_path].data,
                               [k \in 1..(oc.i - 1) |-> ChunkText(k)], 1)
            /\ oc.i = 1 => fs[oc.output_path].data = <<>>

\* the concatenation of the second of two chunks has failed: the first text
\* file is gone, the second and both chunk PDFs are still there
C23_Witness ==
    /\ OcEnded /\ ~call.keep_chunks /\ outcome = Raised("IOError")
    /\ oc.i = 2 /\ Len(oc.text_files) = 2
    /\ ~Exists(fs, oc.text_files[1]) /\ IsFile(fs, oc.text_files[2])
    /\ IsFile(fs, oc.chunk_files[1]) /\ IsFile(fs, oc.chunk_files[2])
    /\ Len(fs[oc.output_path].data) > 100

\* the current (or last) invocation of ocr_file has uploaded its file
Uploaded == rc.file_id # 0

\* the remote calls of the invocation that delete the uploaded object
RcDeletes == {x \in 1..Len(RcCalls) : RcCalls[x].op = "delete"}

\* C24 as stated: an invocation of ocr_file whose upload succeeded leaves no
\* uploaded object on the remote service when it ends, whether it returns or
\* raises.
C24_Original ==
    rc.status \in {"returned", "raised"} /\ Uploaded => ~remote[rc.file_id].live

\* C24, amended: an invocation of ocr_file that returns normally leaves no
\* uploaded object behind; an invocation that raises after its upload succeeded
\* (the output file cannot be opened, an export step fails, or the delete
\* itself fails) leaves the uploaded object on the remote service, and after a
\* failed export or open no delete is attempted at all.
C24_DeletedOnReturn ==
    /\ rc.status = "returned" =>
          /\ Uploaded /\ ~remote[rc.file_id].live
          /\ RcDeletes = {Len(RcCalls)} /\ RcCalls[Len(RcCalls)].ok
    /\ rc.status = "raised" /\ Uploaded =>
          /\ remote[rc.file_id].live
          /\ rc.exc \in {"OSError", "HttpError"}
          /\ \A x \in RcDeletes : ~RcCalls[x].ok /\ rc.done
          /\ ~rc.done => RcDeletes = {}
    /\ rc.status = "raised" /\ ~Uploaded => RcDeletes = {}
    /\ \A id \in DOMAIN remote :
          remote[id].live =>
            \/ id = rc.file_id /\ rc.status \in {"running", "raised"}

\* an invocation has ended with the service's error in the second export step:
\* the uploaded object is still on the remote service, no delete was sent
C24_Witness ==
    /\ rc.status = "raised" /\ rc.exc = "HttpError" /\ Uploaded
    /\ rc.progress = 2 /\ ~rc.done
    /\ remote[rc.file_id].live
    /\ RcDeletes = {}

\* an invocation has returned, the uploaded object deleted
C24_WitnessReturned ==
    /\ rc.status = "returned" /\ rc.caller = "top"
    /\ ~remote[rc.file_id].live /\ Len(RcCalls) = 4

\* line 323-324: the final output path of the running call
FinalOutput ==
    IF call.output = NoPath THEN DefaultTextOutput(call.input) ELSE call.output

\* the file at path p is as it was before the call: absent, or there unchanged
Untouched(p) ==
    IF Exists(fs0, p) THEN Exists(fs, p) /\ fs[p] = fs0[p] ELSE ~Exists(fs, p)

\* the splitter or the recognition of a chunk has failed in the running call
SplitOrRecognitionFailed ==
    /\ call.op = "ocr_pdf_chunked"
    /\ \/ sp.caller = "oc" /\ sp.status = "raised"
       \/ rc.caller = "oc" /\ rc.status = "raised"

\* every chunk of the running call has been recognised
AllRecognised ==
    /\ sp.caller = "oc" /\ sp.status = "returned"
    /\ oc.chunk_files = sp.chunk_files
    /\ Len(oc.text_files) = Len(oc.chunk_files)
    /\ oc.k > Len(oc.chunk_files)
    /\ Len(Creates) = Len(oc.chunk_files)
    /\ \A x \in 1..Len(drive_log) : drive_log[x].ok

\* C27: ocr_pdf_chunked opens the final output file for writing only after
\* every chunk has been recognised: if splitting or the recognition of a chunk
\* fails, the final output file is neither created nor truncated, no chunk
\* file is deleted, and the original document is not deleted.
C27_OutputOpenedLast ==
    call.op = "ocr_pdf_chunked" =>
      /\ ~Untouched(FinalOutput) => AllRecognised
      /\ SplitOrRecognitionFailed =>
            /\ OcEnded /\ outcome.status = "raised"
            /\ Untouched(FinalOutput)
            /\ \A p \in Range(sp.chunk_files) \cup Range(oc.text_files) :
                  IsFile(fs, p)
            /\ Untouched(call.input)
            /\ oc.i = 0 /\ oc.j = 0

\* the recognition of the second of two chunks has failed: the final text
\* that was there before the call is as it was, both chunk PDFs and the first
\* chunk's text are there, and so is the original
C27_Witness ==
    /\ SplitOrRecognitionFailed /\ rc.status = "raised"
    /\ call.output = NoPath /\ call.delete_original /\ ~call.keep_chunks
    /\ Len(sp.chunk_files) = 2 /\ Len(oc.text_files) = 1
    /\ Exists(fs0, FinalOutput) /\ fs[FinalOutput] = Txt(<<"o">>)
    /\ IsFile(fs, sp.chunk_files[1]) /\ IsFile(fs, sp.chunk_files[2])
    /\ IsFile(fs, oc.text_files[1])
    /\ Exists(fs, call.input)

\* the splitter has failed while writing the second chunk
C27_WitnessSplit ==
    /\ SplitOrRecognitionFailed /\ sp.status = "raised" /\ sp.exc = "WriteError"
    /\ Len(sp.chunk_files) = 1 /\ IsFile(fs, sp.chunk_files[1])
    /\ ~Exists(fs, FinalOutput)

\* C28 as stated: a failed convert leaves the file system as it was: a file
\* that was at the output path before the call is still there, its content
\* unchanged, when the conversion fails before writing to it.
C28_Original ==
    /\ ConvertRaised /\ ~cv.opened
    /\ IsFile(cv.fs_at_call, cv.output_path)
    => /\ IsFile(fs, cv.output_path)
       /\ fs[cv.output_path] = cv.fs_at_call[cv.output_path]

\* convert to an output path where a file was has failed in its first step,
\* the rendering, and the file that was there is gone
C28_Witness ==
    /\ pc = "done" /\ call.op = "convert" /\ call.output = OutPdf
    /\ outcome = Raised("ConversionFailed")
    /\ render_calls = 1 /\ ~cv.opened
    /\ IsFile(fs0, OutPdf) /\ ~Exists(fs, OutPdf)
    /\ ChangedPaths(fs0, fs) = {OutPdf}

\* the export steps and the delete calls sent to the service so far
ExportSteps == SelectSeq(drive_log, LAMBDA e : e.op = "export")

DeleteCalls == SelectSeq(drive_log, LAMBDA e : e.op = "delete")

\* the page count P of the document the running call was given; a path where
\* no document is counts as 0 pages
PagesOfInput ==
    IF Exists(fs0, call.input) THEN Len(fs0[call.input].pages) ELSE 0

\* a step of the program in which the export loop behaves as `while not done`:
\* once a step has reported done no further step is requested, and the loop
\* is left for the delete call only when done was reported
ExportLoopStep ==
    /\ rc.done => ExportSteps' = ExportSteps
    /\ DeleteCalls' # DeleteCalls => rc.done /\ pc = "rc_download"

\* a call of ocr_pdf_chunked is under way
OcRunning == call.op = "ocr_pdf_chunked" /\ pc # "done"

\* what is left of the export of the running ocr_file: the characters the
\* downloader has not delivered, and the step that reports done
ExportLeft ==
    IF rc.done \/ rc.file_id \notin DOMAIN remote THEN 0
    ELSE 1 + Len(remote[rc.file_id].text) - rc.progress

\* A measure of the work a call of ocr_pdf_chunked has left: the phase (from
\* 9, the start, down to 0, ended), the iterations left of the phase's loop,
\* the position inside an iteration, and what is left of the export loop.
Measure ==
    CASE pc = "oc_start" -> <<9, 0, 0, 0>>
      [] pc = "au_start" -> <<8, 0, 0, 0>>
      [] pc = "oc_mkdir" -> <<7, 0, 0, 0>>
      [] pc = "oc_auto_convert" -> <<6, 0, 0, 0>>
      [] pc = "cv_start" -> <<5, 6, 0, 0>>
      [] pc = "cv_render" -> <<5, 5, 0, 0>>
      [] pc = "cv_page" -> <<5, 4, Len(cv.images) + 1 - cv.i, 0>>
      [] pc = "cv_stat" -> <<5, 3, 0, 0>>
      [] pc = "cv_except" -> <<5, 2, 0, 0>>
      [] pc \in {"oc_converted", "oc_convert_except"} -> <<5, 1, 0, 0>>
      [] pc = "oc_split" -> <<4, 4, 0, 0>>
      [] pc = "sp_start" -> <<4, 3, 0, 0>>
      [] pc = "sp_loop" -> <<4, 2, sp.num_chunks - sp.chunk_num, 0>>
      [] pc = "oc_split_done" -> <<4, 1, 0, 0>>
      [] pc = "oc_ocr_loop" -> <<3, Len(oc.chunk_files) + 1 - oc.k, 6, 0>>
      [] pc = "rc_start" -> <<3, Len(oc.chunk_files) + 1 - oc.k, 5, 0>>
      [] pc = "rc_upload" -> <<3, Len(oc.chunk_files) + 1 - oc.k, 4, 0>>
      [] pc = "rc_export" -> <<3, Len(oc.chunk_files) + 1 - oc.k, 3, 0>>
      [] pc = "rc_download" -> <<3, Len(oc.chunk_files) + 1 - oc.k, 2, ExportLeft>>
      [] pc = "oc_ocr_done" -> <<3, Len(oc.chunk_files) + 1 - oc.k, 1, 0>>
      [] pc = "oc_combine" -> <<2, Len(oc.text_files) + 1 - oc.i, 0, 0>>
      [] pc = "oc_cleanup" -> <<1, Len(oc.chunk_files) + 1 - oc.j, 0, 0>>
      [] OTHER -> <<0, 0, 0, 0>>

\* x is before y in the lexicographic order
LexLess(x, y) ==
    \E i \in 1..4 : x[i] < y[i] /\ \A j \in 1..(i - 1) : x[j] = y[j]

\* C30: for every page count P and chunk size C > 0, every external call
\* returning or raising and the downloader reporting done in the end,
\* ocr_pdf_chunked ends (returns or raises) after at most ceil(P/C) chunk
\* recognitions: while it runs a step is always possible, every step makes
\* the measure of the work left smaller, the measure is never negative, and
\* it is 0 only when the call has ended.  The export loop of ocr_file stops at
\* the first step that reports done and requests no step after it.
C30_Terminates ==
    /\ [](call.op = "ocr_pdf_chunked"
            => /\ pages_per_chunk > 0
               /\ Len(Creates) <= Ceil(PagesOfInput, pages_per_chunk)
               /\ \A i \in 1..4 : Measure[i] >= 0
               /\ Measure[1] = 0 <=> pc = "done"
               /\ pc = "done" => outcome.status \in {"returned", "raised"}
               /\ pc # "done" => ENABLED Next)
    /\ [][OcRunning => LexLess(Measure', Measure)]_vars
    /\ [][ExportLoopStep]_vars

\* a run on 4 pages in chunks of 3 has returned after 2 recognitions, and an
\* export took more than one step
C30_Witness ==
    /\ OcReturned
    /\ Len(fs0[call.input].pages) = 4 /\ pages_per_chunk = 3
    /\ Len(Creates) = 2 /\ Len(DeleteCalls) = 2
    /\ Len(ExportSteps) > 2

\* a run has ended with an error in the middle of an export
C30_WitnessRaised ==
    /\ OcEnded /\ outcome.status = "raised"
    /\ rc.caller = "oc" /\ rc.status = "raised" /\ rc.progress > 0 /\ ~rc.done
    /\ Len(Creates) = Ceil(PagesOfInput, pages_per_chunk)

(***************************************************************************)
(* Further properties of the batch driver, checked under SpecScan.         *)
(***************************************************************************)
\* the directory has been scanned (lines 447-453)
Scanned == call.op = "scan_and_process_directory" /\ bt.files_by_type # <<>>

\* lines 470, 496: the folder the batch run gives a discovered file
BatchFolderOf(p) ==
    IF Ext(Name(p)) = T_pdf
    THEN Append(bt.batch_folder, Stem(Name(p)))
    ELSE Append(Append(bt.batch_folder, Ext(Name(p)) \o S_files), Stem(Name(p)))

\* the number of times a file was processed to the end
TimesProcessed(p) == Cardinality({x \in 1..Len(bt.processed) : bt.processed[x] = p})

\* C25 as stated: two different discovered files never share their per-file
\* folder, their OCR text path or their processing folder, files that differ
\* only in the letter case of the extension included, so that no file's
\* result overwrites another's.
C25_Original ==
    Scanned =>
      \A p, q \in Discovered :
         p # q =>
           /\ BatchFolderOf(p) # BatchFolderOf(q)
           /\ BatchOutput(p) # BatchOutput(q)
           /\ ProcessingFolder(Append(BatchFolderOf(p), Name(p)))
                # ProcessingFolder(Append(BatchFolderOf(q), Name(q)))

\* a batch over x.jpg and x.JPG has returned: both were recognised, with
\* different texts, and the one text file they share holds the second text only
C25_Witness ==
    /\ BatchReturned
    /\ Range(bt.processed) = {TwinLower, TwinUpper}
    /\ BatchOutput(TwinLower) = BatchOutput(TwinUpper)
    /\ Len(Creates) = 2
    /\ remote[Creates[1].id].text # remote[Creates[2].id].text
    /\ fs[BatchOutput(TwinLower)].data = remote[Creates[2].id].text
    /\ Cardinality({p \in DOMAIN fs : Name(p) = <<"x">> \o S_ocr_text_txt}) = 1

\* a batch over a.pdf and a.PDF has returned with one a_ocr_text.txt and one
\* processing folder for the two
C25_WitnessPdf ==
    /\ BatchReturned
    /\ Range(bt.processed) = {InputPdf, InputPdfUpper}
    /\ Cardinality({p \in DOMAIN fs : Name(p) = <<"a">> \o S_ocr_text_txt}) = 1
    /\ Cardinality({p \in DOMAIN fs : Name(p) = <<"a">> \o S_processing}) = 1

\* the type list the run works with: the one it was given, or all supported types
Requested ==
    IF call.file_types = <<>> THEN DefaultFileTypes ELSE call.file_types

\* the extension of a path's name without its dot, in lower case
LowerExt(p) ==
    LET s == Suffix(Name(p))
    IN  IF s = <<>> THEN <<>> ELSE Lower(SubSeq(s, 2, Len(s)))

\* the regular files directly in the scanned directory, as it was before the
\* run, whose lower-cased extension is in the type list
Matching ==
    {p \in DOMAIN fs0 :
        /\ Len(p) = Len(call.input) + 1 /\ Parent(p) = call.input
        /\ fs0[p].kind # "dir"
        /\ LowerExt(p) \in Range(Requested)}

Occurrences(ft, file_types) ==
    Cardinality({x \in 1..Len(file_types) : file_types[x] = ft})

\* C26 as stated: in a batch run that completes without error every regular
\* file directly in the directory whose lower-cased extension is in the type
\* list is submitted exactly once, whatever the type list is, and nothing
\* else is submitted.
C26_Original ==
    BatchReturned =>
      /\ \A p \in Matching : TimesProcessed(p) = 1
      /\ Range(bt.processed) \subseteq Matching

\* C26, amended: in a batch run that completes without error nothing but the
\* regular files directly in the directory whose lower-cased extension is in
\* the type list is submitted (no subdirectory, not the batch folder, no file
\* of another extension); each such PDF is submitted exactly once, and each
\* such file of another type T is submitted once per occurrence of T in the
\* type list: exactly once when the list has no repeated entry, k times when
\* T is listed k times.
C26_SubmittedPerOccurrence ==
    /\ Scanned => Discovered = Matching
    /\ BatchReturned =>
         /\ \A p \in Matching :
               /\ TimesProcessed(p) =
                    (IF LowerExt(p) = T_pdf THEN 1
                     ELSE Occurrences(LowerExt(p), Requested))
               /\ LowerExt(p) # T_pdf =>
                    Cardinality({x \in 1..Len(Creates) :
                                   Creates[x].name = Name(p)}) = TimesProcessed(p)
         /\ Range(bt.processed) \subseteq Matching
         /\ Range(bt.processed) \cap {SubDir, NoteTxt, bt.batch_folder} = {}

\* a batch with the type list [jpg, jpg] has returned: x.jpg and x.JPG were
\* each submitted twice, nothing else was
C26_Witness ==
    /\ BatchReturned /\ call.file_types = <<T_jpg, T_jpg>>
    /\ Exists(fs0, TwinUpper)
    /\ TimesProcessed(TwinLower) = 2 /\ TimesProcessed(TwinUpper) = 2
    /\ Len(bt.processed) = 4 /\ Len(Creates) = 4

\* a batch over all supported types has returned: the PDF and the two JPEG
\* files were each submitted once
C26_WitnessOnce ==
    /\ BatchReturned /\ call.file_types = <<>>
    /\ Matching = {InputPdf, TwinLower, TwinUpper}
    /\ \A p \in Matching : TimesProcessed(p) = 1
    /\ Len(bt.processed) = 3


(***************************************************************************)
(* Properties of runs with a chunk size that is not positive, checked      *)
(* under SpecChunkSize.                                                    *)
(***************************************************************************)
\* C29 as stated: with a chunk size C <= 0 and any page count, a recognition
\* run ends with an error and has written no final output text file.
C29_Original ==
    OcEnded /\ pages_per_chunk <= 0
    => outcome.status = "raised" /\ Untouched(FinalOutput)

\* a run on a document of 3 pages with chunk size -1 has returned: no chunk
\* was written or submitted, and the final output is a new, empty text file
C29_Witness ==
    /\ OcReturned /\ pages_per_chunk = -1
    /\ Len(fs0[InputPdf].pages) = 3
    /\ sp.caller = "oc" /\ sp.num_chunks = -1 /\ sp.chunk_files = <<>>
    /\ Len(Creates) = 0
    /\ ~Exists(fs0, FinalOutput)
    /\ fs[FinalOutput] = Txt(<<>>)

\* with chunk size 0 the run ends in the splitter's division by zero and the
\* final output was not written
C29_WitnessZero ==
    /\ OcEnded /\ pages_per_chunk = 0
    /\ outcome = Raised("ZeroDivisionError")
    /\ Untouched(FinalOutput)
====
